---------------------------- MODULE Spec2Model ----------------------------
(***************************************************************************)
(* A model of the AI image generator page (src/unnamed/part_001, the image *)
(* variant; src/app/page.tsx is the prompt-enhancement variant with the    *)
(* same effects and history handling).                                     *)
(*                                                                         *)
(* JavaScript strings are TLA+ strings; every value of type `any' is a     *)
(* tagged record [t |-> <type>, ...].  An object keeps its properties as   *)
(* a sequence of [k, v] pairs in the order they were added; JSON.stringify *)
(* walks them in the order of the object's own keys.                       *)
(***************************************************************************)
EXTENDS Integers, Sequences, FiniteSets, TLC

VARIABLES
    prompt,             \* useState('')                     part_001:608
    params,             \* useState<GenerationParams>       part_001:609
    loading,            \* useState(false)                  part_001:610
    error,              \* useState<string | null>(null)    part_001:611
    currentResult,      \* useState<ImageGenResult | null>  part_001:612
    history,            \* useState<HistoryItem[]>([])      part_001:613
    activeHistoryId,    \* useState<string | null>(null)    part_001:614
    showSampleData,     \* useState(false)                  part_001:618
    storage,            \* localStorage[HISTORY_KEY]
    effects,            \* passive effects the last commit left to run
    pending,            \* agent calls in flight: the closures awaiting them
    now,                \* the last value Date.now() returned
    uncaught,           \* an exception left a handler or an effect uncaught
    raw,                \* argument of the normalizer under test
    normalized          \* what the normalizer returned for raw

vars == << prompt, params, loading, error, currentResult, history,
           activeHistoryId, showSampleData, storage, effects, pending, now,
           uncaught, raw, normalized >>

uiVars == << prompt, params, loading, error, currentResult, history,
             activeHistoryId, showSampleData, storage, effects, pending, now,
             uncaught >>

-----------------------------------------------------------------------------
(* JavaScript values *)

JUndef == [t |-> "undefined"]
JNull == [t |-> "null"]
JBool(b) == [t |-> "boolean", b |-> b]
JNum(n) == [t |-> "number", n |-> n]
JStr(s) == [t |-> "string", s |-> s]
JObj(props) == [t |-> "object", props |-> props]
JArr(elems) == [t |-> "array", elems |-> elems]
\* the completion of an expression that threw
JThrow == [t |-> "throw"]

Prop(k, v) == [k |-> k, v |-> v]

\* !v
Falsy(v) ==
    \/ v.t \in {"undefined", "null"}
    \/ v.t = "boolean" /\ ~v.b
    \/ v.t = "number" /\ v.n = 0
    \/ v.t = "string" /\ v.s = ""

Truthy(v) == ~Falsy(v)

IsString(v) == v.t = "string"

IsNullish(v) == v.t \in {"undefined", "null"}

\* own property k of v, undefined when v has none (a primitive has none of the
\* properties read here)
OwnProp(v, k) ==
    IF v.t = "object" /\ \E i \in 1..Len(v.props) : v.props[i].k = k
    THEN LET i == CHOOSE j \in 1..Len(v.props) : v.props[j].k = k
         IN v.props[i].v
    ELSE JUndef

\* v.k : a TypeError on null and undefined
Get(v, k) ==
    IF v.t = "throw" \/ IsNullish(v) THEN JThrow ELSE OwnProp(v, k)

\* v.k written where the code has v?.k
StrictGet(v, k) == Get(v, k)

\* v?.k
OptGet(v, k) == IF IsNullish(v) THEN JUndef ELSE OwnProp(v, k)

\* a || b
Or(a, b) == IF a.t = "throw" THEN a ELSE IF Truthy(a) THEN a ELSE b

\* a || b written where the code has a ?? b
OrElse(a, b) == IF a.t = "throw" THEN a ELSE IF Falsy(a) THEN b ELSE a

\* a ?? b
Coalesce(a, b) == IF a.t = "throw" THEN a ELSE IF IsNullish(a) THEN b ELSE a


-----------------------------------------------------------------------------
(* String methods *)

Char(s, i) == SubSeq(s, i, i)

\* s.substring(from) with a 1-based from
From(s, i) == SubSeq(s, i, Len(s))

\* the characters of s
Chars(s) == { Char(s, i) : i \in 1..Len(s) }

\* The letters toLowerCase changes and, at the same place of LowerLetters, what
\* it makes of them: the capitals of the case mapping of Unicode 17.0 that a
\* string of this module can hold together with their small letter.
UpperLetters ==
    "ABCDEFGHIJKLMNOPQRSTUVWXYZÀÁÂÃÄÅÆÇÈÉÊËÌÍÎÏÐÑÒÓÔÕ"
    \o "ÖØÙÚÛÜÝÞƂƄƇƋƎƑƘƠƢƤƦƧƩƬƮƯƱƲƳƵƷƸƼǄǅǇǈǊǋǍǏǑǓǕǗǙǛǞǠǢ"
    \o "ǤǦǨǪǬǮǱǲǴǶǷǸǺǼǾΆΈΉΊΌΎΏΑΒΓΔΕΖΗΘΙΚΛΜΝΞΟΠΡΣΤΥΦΧΨΩΪΫ"
    \o "ϏϘϚϜϞϠϢϤϦϨϪϬϮϴϷϹϺҀҊҌҎҐҒҔҖҘҚҜҞҠҢҤҦҨҪҬҮҰҲҴҶҸҺҼҾӀӁӃ"
    \o "ӅӇӉӋӍӐӒӔӖӘӚӜӞӠӢӤӦӨӪӬӮӰӲӴӶӸӺӼӾᎰᎱᎲᎳᎴᎵᎶᎷᎸᎹᎺᎻᎼᎽᎾᎿᏀᏁᏂ"
    \o "ᏃᏄᏅᏆᏇᏈᏉᏊᏋᏌᏍᏎᏏᏐᏑᏒᏓᏔᏕᏖᏗᏘᏙᏚᏛᏜᏝᏞᏟᏠᏡᏢᏣᏤᏥᏦᏧᏨᏩᏪᏫᏬᏭᏮᏯᏰᏱᏲ"
    \o "ᏳᏴᏵᲉᲐᲑᲒᲓᲔᲕᲖᲗᲘᲙᲚᲛᲜᲝᲞᲟᲠᲡᲢᲣᲤᲥᲦᲧᲨᲩᲪᲫᲬᲭᲮᲯᲰᲱᲲᲳᲴᲵᲶᲷᲸᲹᲺᲽ"
    \o "ᲾᲿẀẂẄẆẈẊẌẎẐẒẔẞẠẢẤẦẨẪẬẮẰẲẴẶẸẺẼẾỀỂỄỆỈỊỌỎỐỒỔỖỘỚỜỞỠỢ"
    \o "ỤỦỨỪỬỮỰỲỴỶỸỺỼỾᾈᾉᾊᾋᾌᾍᾎᾏᾘᾙᾚᾛᾜᾝᾞᾟᾨᾩᾪᾫᾬᾭᾮᾯᾸᾹᾼῌῘῙῨῩῬῼ"
    \o "ↃⒶⒷⒸⒹⒺⒻⒼⒽⒾⒿⓀⓁⓂⓃⓄⓅⓆⓇⓈⓉⓊⓋⓌⓍⓎⓏⲀⲂⲄⲆⲈⲊⲌⲎⲐⲒⲔⲖⲘⲚⲜⲞⲠⲢⲤⲦⲨ"
    \o "ⲪⲬⲮⲰⲲⲴⲶⲸⲺⲼⲾⳀⳂⳄⳆⳈⳊⳌⳎⳐⳒⳔⳖⳘⳚⳜⳞⳠⳢⳫⳭⳲꚀꚂꚄꚆꚈꚊꚌꚎꚐꚒꚔꚖꚘꚚꞀꞂ"
    \o "ꞄꞆꞋꞐꞒꞖꞘꞚꞜꞞꞠꞢꞤꞦꞨꞰꞱꞲꞴꞶꞸꞺꞼꞾꟀꟂꟄꟅꟆꟇꟉꟌ꟎Ꟑ꟒꟔ꟖꟘꟚꟜꟵ"

LowerLetters ==
    "abcdefghijklmnopqrstuvwxyzàáâãäåæçèéêëìíîïðñòóôõ"
    \o "öøùúûüýþƃƅƈƌǝƒƙơƣƥʀƨʃƭʈưʊʋƴƶʒƹƽǆǆǉǉǌǌǎǐǒǔǖǘǚǜǟǡǣ"
    \o "ǥǧǩǫǭǯǳǳǵƕƿǹǻǽǿάέήίόύώαβγδεζηθικλμνξοπρστυφχψωϊϋ"
    \o "ϗϙϛϝϟϡϣϥϧϩϫϭϯθϸϲϻҁҋҍҏґғҕҗҙқҝҟҡңҥҧҩҫҭүұҳҵҷҹһҽҿӏӂӄ"
    \o "ӆӈӊӌӎӑӓӕӗәӛӝӟӡӣӥӧөӫӭӯӱӳӵӷӹӻӽӿꮀꮁꮂꮃꮄꮅꮆꮇꮈꮉꮊꮋꮌꮍꮎꮏꮐꮑꮒ"
    \o "ꮓꮔꮕꮖꮗꮘꮙꮚꮛꮜꮝꮞꮟꮠꮡꮢꮣꮤꮥꮦꮧꮨꮩꮪꮫꮬꮭꮮꮯꮰꮱꮲꮳꮴꮵꮶꮷꮸꮹꮺꮻꮼꮽꮾꮿᏸᏹᏺ"
    \o "ᏻᏼᏽᲊაბგდევზთიკლმნოპჟრსტუფქღყშჩცძწჭხჯჰჱჲჳჴჵჶჷჸჹჺჽ"
    \o "ჾჿẁẃẅẇẉẋẍẏẑẓẕßạảấầẩẫậắằẳẵặẹẻẽếềểễệỉịọỏốồổỗộớờởỡợ"
    \o "ụủứừửữựỳỵỷỹỻỽỿᾀᾁᾂᾃᾄᾅᾆᾇᾐᾑᾒᾓᾔᾕᾖᾗᾠᾡᾢᾣᾤᾥᾦᾧᾰᾱᾳῃῐῑῠῡῥῳ"
    \o "ↄⓐⓑⓒⓓⓔⓕⓖⓗⓘⓙⓚⓛⓜⓝⓞⓟⓠⓡⓢⓣⓤⓥⓦⓧⓨⓩⲁⲃⲅⲇⲉⲋⲍⲏⲑⲓⲕⲗⲙⲛⲝⲟⲡⲣⲥⲧⲩ"
    \o "ⲫⲭⲯⲱⲳⲵⲷⲹⲻⲽⲿⳁⳃⳅⳇⳉⳋⳍⳏⳑⳓⳕⳗⳙⳛⳝⳟⳡⳣⳬⳮⳳꚁꚃꚅꚇꚉꚋꚍꚏꚑꚓꚕꚗꚙꚛꞁꞃ"
    \o "ꞅꞇꞌꞑꞓꞗꞙꞛꞝꞟꞡꞣꞥꞧꞩʞʇʝꞵꞷꞹꞻꞽꞿꟁꟃꞔʂᶎꟈꟊꟍ꟏ꟑꟓꟕꟗꟙꟛƛꟶ"

\* The capitals whose small letter no string of this module can hold (U+0181,
\* whose small letter is U+0253, is the first of them): toLowerCase is not
\* defined on a string that holds one of them.
NoSmallLetter ==
    Chars("ƁƆƉƊƏƐƓƔƖƗƜƝƟϽϾϿႠႡႢႣႤႥႦႧႨႩႪႫႬႭႮႯႰႱႲႳႴႵႶႷႸႹႺႻႼႽႾႿ"
          \o "ჀჁჂჃჄჅჇჍᎠᎡᎢᎣᎤᎥᎦᎧᎨᎩᎪᎫᎬᎭᎮᎯᾺΆῈΈῊΉῚΊῪΎῸΌῺΏꞍꞪꞫꞬꞭꞮꞳꟋ")

\* The Cased characters of Unicode 17.0 that are not Case_Ignorable, and its
\* Case_Ignorable ones: what the Final_Sigma condition looks at
CasedLetters ==
    "ABCDEFGHIJKLMNOPQRSTUVWXYZabcdefghijklmnopqrstuv"
    \o "wxyzªµºÀÁÂÃÄÅÆÇÈÉÊËÌÍÎÏÐÑÒÓÔÕÖØÙÚÛÜÝÞßàáâãäåæçèé"
    \o "êëìíîïðñòóôõöøùúûüýþÿƀƁƂƃƄƅƆƇƈƉƊƋƌƍƎƏƐƑƒƓƔƕƖƗƘƙƚ"
    \o "ƛƜƝƞƟƠơƢƣƤƥƦƧƨƩƪƫƬƭƮƯưƱƲƳƴƵƶƷƸƹƺƼƽƾƿǄǅǆǇǈǉǊǋǌǍǎǏ"
    \o "ǐǑǒǓǔǕǖǗǘǙǚǛǜǝǞǟǠǡǢǣǤǥǦǧǨǩǪǫǬǭǮǯǰǱǲǳǴǵǶǷǸǹǺǻǼǽǾǿ"
    \o "ʀʁʂʃʄʅʆʇʈʉʊʋʌʍʎʏʐʑʒʓʖʗʘʙʚʛʜʝʞʟʠʡʢʣʤʥʦʧʨʩʪʫʬʭʮʯΆΈ"
    \o "ΉΊΌΎΏΐΑΒΓΔΕΖΗΘΙΚΛΜΝΞΟΠΡΣΤΥΦΧΨΩΪΫάέήίΰαβγδεζηθικλ"
    \o "μνξοπρςστυφχψωϊϋόύώϏϐϑϒϓϔϕϖϗϘϙϚϛϜϝϞϟϠϡϢϣϤϥϦϧϨϩϪϫ"
    \o "ϬϭϮϯϰϱϲϳϴϵϷϸϹϺϻϼϽϾϿҀҁҊҋҌҍҎҏҐґҒғҔҕҖҗҘҙҚқҜҝҞҟҠҡҢңҤ"
    \o "ҥҦҧҨҩҪҫҬҭҮүҰұҲҳҴҵҶҷҸҹҺһҼҽҾҿӀӁӂӃӄӅӆӇӈӉӊӋӌӍӎӏӐӑӒӓӔ"
    \o "ӕӖӗӘәӚӛӜӝӞӟӠӡӢӣӤӥӦӧӨөӪӫӬӭӮӯӰӱӲӳӴӵӶӷӸӹӺӻӼӽӾӿրցւփք"
    \o "օֆևֈႠႡႢႣႤႥႦႧႨႩႪႫႬႭႮႯႰႱႲႳႴႵႶႷႸႹႺႻႼႽႾႿჀჁჂჃჄჅჇჍაბგდ"
    \o "ევზთიკლმნოპჟრსტუფქღყშჩცძწჭხჯჰჱჲჳჴჵჶჷჸჹჺჽჾჿᎠᎡᎢᎣᎤᎥ"
    \o "ᎦᎧᎨᎩᎪᎫᎬᎭᎮᎯᎰᎱᎲᎳᎴᎵᎶᎷᎸᎹᎺᎻᎼᎽᎾᎿᏀᏁᏂᏃᏄᏅᏆᏇᏈᏉᏊᏋᏌᏍᏎᏏᏐᏑᏒᏓᏔᏕ"
    \o "ᏖᏗᏘᏙᏚᏛᏜᏝᏞᏟᏠᏡᏢᏣᏤᏥᏦᏧᏨᏩᏪᏫᏬᏭᏮᏯᏰᏱᏲᏳᏴᏵᏸᏹᏺᏻᏼᏽᲀᲁᲂᲃᲄᲅᲆᲇᲈᲉ"
    \o "ᲊᲐᲑᲒᲓᲔᲕᲖᲗᲘᲙᲚᲛᲜᲝᲞᲟᲠᲡᲢᲣᲤᲥᲦᲧᲨᲩᲪᲫᲬᲭᲮᲯᲰᲱᲲᲳᲴᲵᲶᲷᲸᲹᲺᲽᲾᲿᶀ"
    \o "ᶁᶂᶃᶄᶅᶆᶇᶈᶉᶊᶋᶌᶍᶎᶏᶐᶑᶒᶓᶔᶕᶖᶗᶘᶙᶚẀẁẂẃẄẅẆẇẈẉẊẋẌẍẎẏẐẑẒẓẔẕ"
    \o "ẖẗẘẙẚẛẜẝẞẟẠạẢảẤấẦầẨẩẪẫẬậẮắẰằẲẳẴẵẶặẸẹẺẻẼẽẾếỀềỂểỄễ"
    \o "ỆệỈỉỊịỌọỎỏỐốỒồỔổỖỗỘộỚớỜờỞởỠỡỢợỤụỦủỨứỪừỬửỮữỰựỲỳỴỵ"
    \o "ỶỷỸỹỺỻỼỽỾỿᾀᾁᾂᾃᾄᾅᾆᾇᾈᾉᾊᾋᾌᾍᾎᾏᾐᾑᾒᾓᾔᾕᾖᾗᾘᾙᾚᾛᾜᾝᾞᾟᾠᾡᾢᾣᾤᾥ"
    \o "ᾦᾧᾨᾩᾪᾫᾬᾭᾮᾯᾰᾱᾲᾳᾴᾶᾷᾸᾹᾺΆᾼιῂῃῄῆῇῈΈῊΉῌῐῑῒΐῖῗῘῙῚΊῠῡῢΰῤ"
    \o "ῥῦῧῨῩῪΎῬῲῳῴῶῷῸΌῺΏῼↃↄⒶⒷⒸⒹⒺⒻⒼⒽⒾⒿⓀⓁⓂⓃⓄⓅⓆⓇⓈⓉⓊⓋⓌⓍⓎⓏⓐⓑ"
    \o "ⓒⓓⓔⓕⓖⓗⓘⓙⓚⓛⓜⓝⓞⓟⓠⓡⓢⓣⓤⓥⓦⓧⓨⓩⲀⲁⲂⲃⲄⲅⲆⲇⲈⲉⲊⲋⲌⲍⲎⲏⲐⲑⲒⲓⲔⲕⲖⲗ"
    \o "ⲘⲙⲚⲛⲜⲝⲞⲟⲠⲡⲢⲣⲤⲥⲦⲧⲨⲩⲪⲫⲬⲭⲮⲯⲰⲱⲲⲳⲴⲵⲶⲷⲸⲹⲺⲻⲼⲽⲾⲿⳀⳁⳂⳃⳄⳅⳆⳇ"
    \o "ⳈⳉⳊⳋⳌⳍⳎⳏⳐⳑⳒⳓⳔⳕⳖⳗⳘⳙⳚⳛⳜⳝⳞⳟⳠⳡⳢⳣⳤⳫⳬⳭⳮⳲⳳꚀꚁꚂꚃꚄꚅꚆꚇꚈꚉꚊꚋꚌ"
    \o "ꚍꚎꚏꚐꚑꚒꚓꚔꚕꚖꚗꚘꚙꚚꚛꞀꞁꞂꞃꞄꞅꞆꞇꞋꞌꞍꞎꞐꞑꞒꞓꞔꞕꞖꞗꞘꞙꞚꞛꞜꞝꞞꞟꞠꞡꞢꞣꞤ"
    \o "ꞥꞦꞧꞨꞩꞪꞫꞬꞭꞮꞯꞰꞱꞲꞳꞴꞵꞶꞷꞸꞹꞺꞻꞼꞽꞾꞿꟀꟁꟂꟃꟄꟅꟆꟇꟈꟉꟊꟋꟌꟍ꟎꟏Ꟑꟑ꟒ꟓ꟔"
    \o "ꟕꟖꟗꟘꟙꟚꟛꟜꟵꟶꟺꮀꮁꮂꮃꮄꮅꮆꮇꮈꮉꮊꮋꮌꮍꮎꮏꮐꮑꮒꮓꮔꮕꮖꮗꮘꮙꮚꮛꮜꮝꮞꮟꮠꮡꮢꮣꮤ"
    \o "ꮥꮦꮧꮨꮩꮪꮫꮬꮭꮮꮯꮰꮱꮲꮳꮴꮵꮶꮷꮸꮹꮺꮻꮼꮽꮾꮿ"

CaseIgnorable ==
    "'.:^¨­¯´·¸ʰʱʲʳʴʵʶʷʸʹʺʻʼʽʾʿˀˁ˂˃˄˅ˆˇˈˉˊˋˌˍˎˏːˑ˒˓˔˕"
    \o "˖˗˘˙˚˛˜˝˞˟ˠˡˢˣˤ˥˦˧˨˩˪˫ˬ˭ˮ˯˰˱˲˳˴˵˶˷˸˹˺˻˼˽˾˿΄΅·҃҄҅"
    \o "҆҇҈҉ְֱֲֳִֵֶַָֹֺֻּ֑֖֛֢֣֤֥֦֧֪֚֭֮֒֓֔֕֗֘֙֜֝֞֟֠֡֨֩֫֬֯"
    \o "ׇֽֿׁׂׅׄ״ۖۗۘۙۚۛۜ۝ۣ۟۠ۡۢۤۥۦ۪ۭۧۨ۫۬ަާިީުޫެޭޮޯް߫߬߭߮߯߰߱"
    \o "߲߳ߴߵߺ߽࢈࢐࢑࢙࢚࢛ࢗ࢘࢜࢝࢞࢟ࣉ࣏࣐࣑࣒࣓࣊࣋࣌࣍࣎ࣔࣕࣖࣗࣘࣙࣚࣛࣜࣝࣞࣟ࣠࣡࣢ࣣࣦࣤࣥ"
    \o "ࣰࣱࣲࣩ࣭࣮࣯ࣶࣹࣺࣧࣨ࣪࣫࣬ࣳࣴࣵࣷࣸࣻࣼࣽࣾࣿঁ়ুূৃৄ্ৢৣ৾ઁં઼ુૂૃૄૅેૈ્ૢૣ"
    \o "ૺૻૼ૽૾૿ஂீ்ಁ಼ಿೆೌ್ೢೣඁ්ිීුූັິີຶື຺ຸູົຼໆ່້໊໋໌ໍ໎྄ཱྀྀྂྃ྆྇"
    \o "ྍྎྏྐྑྒྒྷྔྕྖྗྙྚྛྜྜྷྞྟྠྡྡྷྣྤྥྦྦྷྨྩྪྫྫྷྭྮྯྰྱྲླྴྵྶྷྸྐྵྺྻྼ࿆"
    \o "ႂႅႆႍႝჼ឴឵ិីឹឺុូួំ៉៊់៌៍៎៏័៑្៓ៗ៝ᢅᢆᢩᪧ᪵᪶᪷᪸᪹᪺᪽᪰᪱᪲᪳᪴᪻᪼᪾"
    \o "ᪿᫀ᫃᫄᫊᫁᫂᫅᫆᫇᫈᫉᫋ᫌᫍᫎ᫏᫐᫑᫒᫓᫔᫕᫖᫗᫘᫙᫚᫛᫜᫝᫠᫡᫢᫣᫤᫥᫦᫧᫨᫩᫪᫫ᮀᮁᮢᮣᮤ"
    \o "ᮥᮨᮩ᮫ᮬᮭ᯦ᯨᯩᯭᯯᯰᯱ᳔᳢᳣᳤᳥᳦᳧᳨᳕᳖᳗᳘᳙᳜᳝᳞᳟᳭᳐᳑᳒᳚᳛᳠᳴᳸᳹ᶛᶜᶝᶞᶟᶠᶡᶢ"
    \o "ᶣᶤᶥᶦᶧᶨᶩᶪᶫᶬᶭᶮᶯᶰᶱᶲᶳᶴᶵᶶᶷᶸᶹᶺᶻᶼᶽᶾᶿ᷐᷎᷂᷊᷏᷀᷁᷃᷄᷅᷆᷇᷈᷉᷋᷌᷑᷒᷍"
    \o "᷺᷹᷽᷿᷷᷸ᷓᷔᷕᷖᷗᷘᷙᷚᷛᷜᷝᷞᷟᷠᷡᷢᷣᷤᷥᷦᷧᷨᷩᷪᷫᷬᷭᷮᷯᷰᷱᷲᷳᷴ᷵᷻᷾᷶᷼᾽᾿῀"
    \o "῁῍῎῏῝῞῟῭΅`´῾ₐₑₒₓₔₕₖₗₘₙₚₛₜ⃒⃓⃘⃙⃚⃐⃑⃔⃕⃖⃗⃛⃜⃝⃞⃟⃠⃡⃢⃣⃤⃥⃦"
    \o "⃪⃫゙゚⃨⃬⃭⃮⃯⃧⃩⃰⳯⳰⳱ⷠⷡⷢⷣⷤⷥⷦⷧⷨⷩⷪⷫⷬⷭⷮⷯⷰⷱⷲⷳⷴⷵⷶⷷⷸⷹⷺⷻⷼⷽⷾⷿ゛"
    \o "゜ゝゞーヽヾꓸꓹꓺꓻꓼꓽꚜꚝꚞꚟ꛰꛱ꞈ꞉꞊꟱ꟲꟳꟴꟸꟹ꣄ꣅ꣠꣡꣢꣣꣤꣥꣦꣧꣨꣩꣪꣫꣬꣭꣮꣯꣰꣱ꣿ"
    \o "ꦀꦁꦂ꦳ꦶꦷꦸꦹꦼꦽꧏꧥꧦꪴꪰꪲꪳꪷꪸꪾ꪿꫁ꫝꫬꫭꫳꫴ꫶ꯥꯨ꯭﮲﮳﮴﮵﮶﮷﮸﮹﮺﮻﮼﮽﮾﮿﯀﯁﯂"
    \o "﻿ﾞﾟ￣￹￺￻"

LowerOf ==
    [ c \in Chars(UpperLetters) |->
        Char(LowerLetters, CHOOSE i \in 1..Len(UpperLetters) : Char(UpperLetters, i) = c) ]

Cased == Chars(CasedLetters)
Ignorable == Chars(CaseIgnorable)

LowerChar(c) ==
    IF c \in DOMAIN LowerOf THEN LowerOf[c]
    ELSE IF c \in NoSmallLetter THEN CHOOSE l \in {} : TRUE
    ELSE c

\* a cased letter stands at i or before, nothing but case-ignorable characters
\* in between
RECURSIVE CasedBefore(_, _)
CasedBefore(s, i) ==
    /\ i >= 1
    /\ IF Char(s, i) \in Ignorable THEN CasedBefore(s, i - 1) ELSE Char(s, i) \in Cased

\* a cased letter stands at i or after, nothing but case-ignorable characters
\* in between
RECURSIVE CasedAfter(_, _)
CasedAfter(s, i) ==
    /\ i <= Len(s)
    /\ IF Char(s, i) \in Ignorable THEN CasedAfter(s, i + 1) ELSE Char(s, i) \in Cased

\* Final_Sigma: the capital sigma at i ends a word and is written as the final
\* small sigma
FinalSigma(s, i) ==
    Char(s, i) = "Σ" /\ CasedBefore(s, i - 1) /\ ~CasedAfter(s, i + 1)

RECURSIVE LowerFrom(_, _)
LowerFrom(s, i) ==
    IF i > Len(s) THEN ""
    ELSE (IF FinalSigma(s, i) THEN "ς" ELSE LowerChar(Char(s, i))) \o LowerFrom(s, i + 1)

toLowerCase(s) == LowerFrom(s, 1)

\* the characters \s and trim() take for white space
\* (WhiteSpace and LineTerminator of ECMAScript: tab, line feed, vertical tab,
\* form feed, carriage return, space, no-break space, ogham space mark, byte
\* order mark)
WhiteSpace == { "\t", "\n", "", "\f", "\r", " ", " ", " ", "﻿" }

IsSpace(c) == c \in WhiteSpace

RECURSIVE trimStart(_)
trimStart(s) ==
    IF s # "" /\ IsSpace(Char(s, 1)) THEN trimStart(From(s, 2)) ELSE s

RECURSIVE trimEnd(_)
trimEnd(s) ==
    IF s # "" /\ IsSpace(Char(s, Len(s))) THEN trimEnd(SubSeq(s, 1, Len(s) - 1)) ELSE s

trim(s) == trimEnd(trimStart(s))

\* 1-based s.lastIndexOf(c) for a one-character c, 0 when c does not occur
lastIndexOf(s, c) ==
    IF \E i \in 1..Len(s) : Char(s, i) = c
    THEN CHOOSE i \in 1..Len(s) : Char(s, i) = c /\ \A j \in (i + 1)..Len(s) : Char(s, j) # c
    ELSE 0

\* 1-based s.indexOf(c) for a one-character c, 0 when c does not occur
indexOf(s, c) ==
    IF \E i \in 1..Len(s) : Char(s, i) = c
    THEN CHOOSE i \in 1..Len(s) : Char(s, i) = c /\ \A j \in 1..(i - 1) : Char(s, j) # c
    ELSE 0

\* s.split(sep) for a one-character sep
RECURSIVE split(_, _)
split(s, sep) ==
    LET i == indexOf(s, sep)
    IN IF i = 0 THEN << s >>
       ELSE << SubSeq(s, 1, i - 1) >> \o split(From(s, i + 1), sep)

\* s.replace(/\s+/g, '_')
RECURSIVE replaceSpaceRuns(_)
replaceSpaceRuns(s) ==
    IF s = "" THEN ""
    ELSE IF IsSpace(Char(s, 1))
         THEN "_" \o replaceSpaceRuns(trimStart(s))
         ELSE Char(s, 1) \o replaceSpaceRuns(From(s, 2))

-----------------------------------------------------------------------------
(* The response normalizer of the image variant *)

ResultFields ==
    {"image_url", "enhanced_prompt", "original_prompt", "style", "generation_metadata"}

EmptyResult ==
    [image_url |-> JStr(""), enhanced_prompt |-> JStr(""), original_prompt |-> JStr(""),
     style |-> JStr(""), generation_metadata |-> JStr("")]

\* the key of a line that holds a colon
KeyOf(line) ==
    replaceSpaceRuns(toLowerCase(trim(SubSeq(line, 1, indexOf(line, ":") - 1))))

\* one iteration of the loop over the lines
ParseLine(result, line) ==
    LET colonIdx == indexOf(line, ":")
        key == KeyOf(line)
        value == trim(From(line, colonIdx + 1))
    IN IF colonIdx = 0 THEN result
       ELSE IF key \in ResultFields THEN [result EXCEPT ![key] = JStr(value)]
       ELSE result

RECURSIVE ParseLines(_, _)
ParseLines(result, lines) ==
    IF lines = << >> THEN result
    ELSE ParseLines(ParseLine(result, Head(lines)), Tail(lines))

\* text is any value: the callers pass response.message and raw_response unchecked
parseAgentTextResponse(text) ==
    IF Falsy(text) \/ ~IsString(text) THEN EmptyResult
    ELSE ParseLines(EmptyResult, split(text.s, "\n"))

\* the control characters U+0001 to U+001F, the character of code i at place i
ControlChars ==
    "\t\n\f\r"

ControlCode ==
    [ c \in Chars(ControlChars) |->
        CHOOSE i \in 1..Len(ControlChars) : Char(ControlChars, i) = c ]

HexDigits == "0123456789abcdef"

\* \u00XX for the character of code n < 256
UnicodeEscape(n) ==
    "\\u00" \o Char(HexDigits, (n \div 16) + 1) \o Char(HexDigits, (n % 16) + 1)

\* JSON.stringify's escape of one character of a string (QuoteJSONString)
EscapeChar(c) ==
    IF c = "\"" THEN "\\\""
    ELSE IF c = "\\" THEN "\\\\"
    ELSE IF c = "" THEN "\\b"
    ELSE IF c = "\t" THEN "\\t"
    ELSE IF c = "\n" THEN "\\n"
    ELSE IF c = "\f" THEN "\\f"
    ELSE IF c = "\r" THEN "\\r"
    ELSE IF c \in DOMAIN ControlCode THEN UnicodeEscape(ControlCode[c])
    ELSE c

RECURSIVE Escape(_)
Escape(s) == IF s = "" THEN "" ELSE EscapeChar(Char(s, 1)) \o Escape(From(s, 2))

Quote(s) == "\"" \o Escape(s) \o "\""

Digits == "0123456789"

\* a < b for two strings of digits of one length
RECURSIVE DigitsBelow(_, _)
DigitsBelow(a, b) ==
    /\ a # ""
    /\ \/ indexOf(Digits, Char(a, 1)) < indexOf(Digits, Char(b, 1))
       \/ Char(a, 1) = Char(b, 1) /\ DigitsBelow(From(a, 2), From(b, 2))

\* a < b for two canonical decimals
IndexBelow(a, b) == Len(a) < Len(b) \/ (Len(a) = Len(b) /\ DigitsBelow(a, b))

\* k is an array index: the canonical decimal of an integer from 0 to 2^32 - 2
IsArrayIndex(k) ==
    /\ k # "" /\ \A i \in 1..Len(k) : Char(k, i) \in Chars(Digits)
    /\ k = "0" \/ Char(k, 1) # "0"
    /\ IndexBelow(k, "4294967295")

IsIndexProp(p) == IsArrayIndex(p.k)
IsNameProp(p) == ~IsArrayIndex(p.k)
IndexPropBelow(p, q) == IndexBelow(p.k, q.k)

\* [[OwnPropertyKeys]]: the array indices in ascending order, then the other
\* keys in the order they were added
OwnPropertyKeys(props) ==
    SortSeq(SelectSeq(props, IsIndexProp), IndexPropBelow) \o SelectSeq(props, IsNameProp)

\* JSON.stringify(v) for a v that is not undefined
RECURSIVE JSONstringify(_)
RECURSIVE StringifyProps(_, _)
RECURSIVE StringifyEntries(_, _)
RECURSIVE StringifyElems(_, _)
JSONstringify(v) ==
    CASE v.t = "null" -> "null"
      [] v.t = "boolean" -> IF v.b THEN "true" ELSE "false"
      [] v.t = "number" -> ToString(v.n)
      [] v.t = "string" -> Quote(v.s)
      [] v.t = "object" -> "{" \o StringifyProps(v.props, TRUE) \o "}"
      [] v.t = "array" -> "[" \o StringifyElems(v.elems, TRUE) \o "]"

\* the rest of the properties after the first ones were written; one whose
\* value is undefined is left out
StringifyEntries(props, first) ==
    IF props = << >> THEN ""
    ELSE LET p == Head(props)
         IN IF p.v.t = "undefined" THEN StringifyEntries(Tail(props), first)
            ELSE (IF first THEN "" ELSE ",") \o Quote(p.k) \o ":" \o JSONstringify(p.v)
                 \o StringifyEntries(Tail(props), FALSE)

\* the properties in the order of the object's own keys
StringifyProps(props, first) == StringifyEntries(OwnPropertyKeys(props), first)

\* an undefined element is written null
StringifyElems(elems, first) ==
    IF elems = << >> THEN ""
    ELSE (IF first THEN "" ELSE ",")
         \o (IF Head(elems).t = "undefined" THEN "null" ELSE JSONstringify(Head(elems)))
         \o StringifyElems(Tail(elems), FALSE)

ImageExtensions == {"png", "jpg", "jpeg", "gif", "webp"}

\* length of the match of /https?:\/\//i at position i of s, 0 when there is none
SchemeLen(s, i) ==
    IF i + 7 <= Len(s) /\ toLowerCase(SubSeq(s, i, i + 7)) = "https://" THEN 8
    ELSE IF i + 6 <= Len(s) /\ toLowerCase(SubSeq(s, i, i + 6)) = "http://" THEN 7
    ELSE 0

\* [^\s"',}]
InUrlClass(c) == ~IsSpace(c) /\ c \notin {"\"", "'", ",", "}"}

\* the ends e of a match of [^\s"',}]+\.(?:png|jpg|jpeg|gif|webp) that starts at j
UrlEnds(s, j) ==
    { e \in j..Len(s) :
        /\ \A k \in j..e : InUrlClass(Char(s, k))
        /\ \E d \in (j + 1)..e :
              /\ Char(s, d) = "."
              /\ toLowerCase(SubSeq(s, d + 1, e)) \in ImageExtensions }

\* the starts of a match of the whole expression
UrlStarts(s) ==
    { i \in 1..Len(s) : SchemeLen(s, i) > 0 /\ UrlEnds(s, i + SchemeLen(s, i)) # {} }

Max(S) == CHOOSE x \in S : \A y \in S : y <= x
Min(S) == CHOOSE x \in S : \A y \in S : x <= y

\* the match that starts last where the code takes the leftmost one
matchLastImageUrl(str) ==
    IF UrlStarts(str) = {} THEN JNull
    ELSE LET i == Max(UrlStarts(str))
         IN JStr(SubSeq(str, i, Max(UrlEnds(str, i + SchemeLen(str, i)))))

\* str.match(/https?:\/\/[^\s"',}]+\.(?:png|jpg|jpeg|gif|webp)/i): the leftmost
\* match, its greedy + giving the longest one there; null when there is none
matchImageUrl(str) ==
    IF UrlStarts(str) = {} THEN JNull
    ELSE LET i == Min(UrlStarts(str))
         IN JStr(SubSeq(str, i, Max(UrlEnds(str, i + SchemeLen(str, i)))))

\* a result whose evaluation hit a TypeError completes abruptly
Completion(r) == IF \E f \in ResultFields : r[f].t = "throw" THEN JThrow ELSE r

\* Case 3 and Case 4: the five fields read off src, each || ''
FieldsOf(src) ==
    [f \in ResultFields |-> Or(Get(src, f), JStr(""))]

\* Case 1 taken only when the parse of text has an image_url, as Case 2 is
TextCaseNeedsUrl(agentResult) ==
    /\ Truthy(OptGet(agentResult, "text"))
    /\ IsString(Get(agentResult, "text"))
    /\ Truthy(parseAgentTextResponse(Get(agentResult, "text")).image_url)

\* Case 1: agentResult?.text && typeof agentResult.text === 'string'
TextCase(agentResult) ==
    Truthy(OptGet(agentResult, "text")) /\ IsString(Get(agentResult, "text"))

\* Case 2 without its `if (parsed.image_url)'
MessageCaseAnyParse(agentResult) ==
    Truthy(OptGet(agentResult, "message")) /\ IsString(Get(agentResult, "message"))

\* Case 2: the message is a string and its parse has an image_url
MessageCase(agentResult) ==
    /\ Truthy(OptGet(agentResult, "message"))
    /\ IsString(Get(agentResult, "message"))
    /\ Truthy(parseAgentTextResponse(Get(agentResult, "message")).image_url)

\* Case 3 standing behind Case 4: taken only when there is no top-level image_url
DataCaseAfterDirect(agentResult) ==
    Truthy(OptGet(agentResult, "data")) /\ Falsy(OptGet(agentResult, "image_url"))

\* Case 3: agentResult?.data
DataCase(agentResult) == Truthy(OptGet(agentResult, "data"))

extractImageResult(agentResult) ==
    IF TextCase(agentResult)
    THEN parseAgentTextResponse(Get(agentResult, "text"))
    ELSE IF MessageCase(agentResult)
    THEN parseAgentTextResponse(Get(agentResult, "message"))
    ELSE IF DataCase(agentResult)
    THEN Completion(FieldsOf(Get(agentResult, "data")))
    ELSE IF Truthy(OptGet(agentResult, "image_url"))
    THEN Completion(FieldsOf(agentResult))
    ELSE IF IsString(agentResult)
    THEN parseAgentTextResponse(agentResult)
    ELSE LET str == JSONstringify(Or(agentResult, JObj(<< >>)))
             urlMatch == matchImageUrl(str)
         IN IF urlMatch.t # "null"
            THEN [image_url |-> urlMatch,
                  enhanced_prompt |->
                      Or(OptGet(agentResult, "enhanced_prompt"),
                         Or(OptGet(agentResult, "summary"), JStr(""))),
                  original_prompt |-> Or(OptGet(agentResult, "original_prompt"), JStr("")),
                  style |-> Or(OptGet(agentResult, "style"), JStr("")),
                  generation_metadata |-> JStr("")]
            ELSE EmptyResult

-----------------------------------------------------------------------------
(* The page: constants, history items, browser storage *)

MAX_CHARS == 500

\* prev.slice(0, 49)
SLICE_END == 49

DefaultParams == [style |-> "Realistic", size |-> "Square (1024x1024)", quality |-> "HD"]

\* A HistoryItem.  Its timestamp (a second Date.now()) is read by nothing but the
\* sidebar's time label and is left out.
Item(id, p, pr, result) ==
    [id |-> id, prompt |-> p, style |-> pr.style, size |-> pr.size,
     quality |-> pr.quality, result |-> result]

SAMPLE_HISTORY ==
    << Item("sample-1", "A cute cat sitting on a windowsill watching rain",
            [style |-> "Realistic", size |-> "Square (1024x1024)", quality |-> "HD"],
            [image_url |-> JStr("https://oaidalleapiprodscus.blob.core.windows.net/private/org-xwOg6cOaVRpTtrLcPKzvJpMI/user-mem_cmio6ucfv070k0srh69fm65cy/img-8e9avs2NIeWaIvTmKKJTtoJw.png"),
             enhanced_prompt |-> JStr("A cute cat with soft fur, sitting on a cozy windowsill, gazing outside at raindrops gently falling against the window, warm indoor lighting, peaceful and heartwarming mood"),
             original_prompt |-> JStr("A cute cat sitting on a windowsill watching rain"),
             style |-> JStr("Cozy, heartwarming, realistic with soft lighting"),
             generation_metadata |-> JStr("DALL-E, enhanced for cuteness and mood")]),
       Item("sample-2", "A futuristic city with neon lights at night",
            [style |-> "Cyberpunk", size |-> "Landscape (1792x1024)", quality |-> "HD"],
            [image_url |-> JStr(""),
             enhanced_prompt |-> JStr("A sprawling futuristic cityscape at night, illuminated with vibrant neon lights in hues of blue, pink, and purple, flying cars with glowing underlights"),
             original_prompt |-> JStr("A futuristic city with neon lights at night"),
             style |-> JStr("Cyberpunk digital art with high contrast"),
             generation_metadata |-> JStr("DALL-E, cyberpunk aesthetic")]) >>

(***************************************************************************)
(* What localStorage holds under HISTORY_KEY.  A stored text is described  *)
(* by what the code can tell of it: "none" (getItem returns null), "empty" *)
(* (the empty string), "invalid" (JSON.parse throws), "value" (JSON of     *)
(* something that is no array), "array" (JSON of the array `list').        *)
(* JSON.stringify followed by JSON.parse gives back an equal array for the *)
(* items the page builds (strings and records of agent-supplied JSON       *)
(* values, none undefined).                                                *)
(***************************************************************************)
NoItem == [k |-> "none", list |-> << >>]
EmptyText == [k |-> "empty", list |-> << >>]
InvalidText == [k |-> "invalid", list |-> << >>]
NonArrayText == [k |-> "value", list |-> << >>]
ArrayText(list) == [k |-> "array", list |-> list]

\* a write that stores an entry only once the list holds more than one
setItemLate(item, h, throws) ==
    IF throws THEN item ELSE IF Len(h) = 1 THEN ArrayText(<< >>) ELSE ArrayText(h)

\* localStorage.setItem(HISTORY_KEY, JSON.stringify(h))
setItem(item, h, throws) == IF throws THEN item ELSE ArrayText(h)

\* localStorage.removeItem(HISTORY_KEY)
removeItem(item, throws) == IF throws THEN item ELSE NoItem

(***************************************************************************)
(* The read both effects share: getItem, `if (stored)', JSON.parse,        *)
(* Array.isArray.  "array" with the parsed list, "other" when the item is  *)
(* absent, empty or no array, "threw" when getItem or JSON.parse threw.    *)
(***************************************************************************)
ReadStored(item, throws) ==
    IF throws \/ item.k = "invalid" THEN [k |-> "threw", list |-> << >>]
    ELSE IF item.k = "array" THEN [k |-> "array", list |-> item.list]
    ELSE [k |-> "other", list |-> << >>]

-----------------------------------------------------------------------------
(* The passive effects of Home, in declaration order *)

\* Effect 1 (mount only): the setHistory calls it queues
LoadEffect(item, throws) ==
    LET r == ReadStored(item, throws)
    IN IF r.k = "array" THEN << r.list >> ELSE << >>

\* Effect 2 without its `if (!showSampleData)'
PersistAlways(item, h, show, throws) == setItem(item, h, throws)

\* Effect 2, deps [history, showSampleData]: the item it leaves in storage
PersistEffect(item, h, show, throws) ==
    IF ~show THEN setItem(item, h, throws) ELSE item

\* Effect 3, deps [showSampleData]: the state it sets
ToggleEffect(item, show, throws, curParams) ==
    IF show
    THEN LET first == SAMPLE_HISTORY[1]
         IN [history |-> SAMPLE_HISTORY,
             prompt |-> first.prompt,
             params |-> [style |-> first.style, size |-> first.size, quality |-> first.quality],
             currentResult |-> first.result,
             activeHistoryId |-> JStr(first.id)]
    ELSE LET r == ReadStored(item, throws)
         IN [history |-> IF r.k = "array" THEN r.list ELSE << >>,
             prompt |-> "",
             params |-> curParams,
             currentResult |-> JNull,
             activeHistoryId |-> JNull]

(***************************************************************************)
(* One flush of the passive effects a commit left: on mount all three, and *)
(* after an update those whose dependencies changed.  Every effect sees    *)
(* the state of the render it belongs to; the setters it calls are queued  *)
(* and applied, in call order, by the render that follows.  Storage is     *)
(* written at once.  Each storage access may throw when Faults allows it.  *)
(***************************************************************************)
FlushEffects(Faults) ==
    /\ effects # {}
    /\ \E fLoad \in Faults, fSet \in Faults, fGet \in Faults :
        LET mount == "mount" \in effects
            runToggle == mount \/ "show" \in effects
            loaded == IF mount THEN LoadEffect(storage, fLoad) ELSE << >>
            persisted == PersistEffect(storage, history, showSampleData, fSet)
            tog == ToggleEffect(persisted, showSampleData, fGet, params)
            \* the queued setHistory calls: the last one stands
            queue == loaded \o (IF runToggle THEN << tog.history >> ELSE << >>)
        IN /\ storage' = persisted
           /\ history' = IF queue = << >> THEN history ELSE queue[Len(queue)]
           /\ IF runToggle
              THEN /\ prompt' = tog.prompt
                   /\ params' = tog.params
                   /\ currentResult' = tog.currentResult
                   /\ activeHistoryId' = tog.activeHistoryId
              ELSE UNCHANGED << prompt, params, currentResult, activeHistoryId >>
           /\ effects' = IF queue = << >> THEN {} ELSE {"history"}
    /\ UNCHANGED << loading, error, showSampleData, pending, now, uncaught, raw, normalized >>

Settled == effects = {}

-----------------------------------------------------------------------------
(* The handlers.  React flushes a commit's passive effects before it       *)
(* handles the next event, so a handler runs in a settled state.           *)

\* onChange of the textarea (disabled while loading)
ChangePrompt(val) ==
    /\ Settled /\ ~loading
    /\ val # prompt
    /\ prompt' = IF Len(val) <= MAX_CHARS THEN val ELSE prompt
    /\ UNCHANGED << params, loading, error, currentResult, history, activeHistoryId,
                    showSampleData, storage, effects, pending, now, uncaught, raw, normalized >>

\* onParamsChange of the parameter panel: setParams
ChangeParams(p) ==
    /\ Settled
    /\ p # params
    /\ params' = p
    /\ UNCHANGED << prompt, loading, error, currentResult, history, activeHistoryId,
                    showSampleData, storage, effects, pending, now, uncaught, raw, normalized >>

\* the items of the Style select and of the Size select
Styles ==
    { "Realistic", "Artistic", "Abstract", "Cyberpunk", "Fantasy", "Watercolor",
      "Oil Painting", "3D Render", "Anime", "Minimalist" }

Sizes == { "Square (1024x1024)", "Landscape (1792x1024)", "Portrait (1024x1792)" }

\* the Style select: onParamsChange({ ...params, style: value })
SelectStyle(value) == value \in Styles /\ ChangeParams([params EXCEPT !.style = value])

\* the Size select: onParamsChange({ ...params, size: value })
SelectSize(value) == value \in Sizes /\ ChangeParams([params EXCEPT !.size = value])

\* the Quality switch, checked while the quality is HD: a click hands the
\* opposite to onParamsChange({ ...params, quality: checked ? 'HD' : 'Standard' })
SwitchQuality ==
    LET checked == ~(params.quality = "HD")
    IN ChangeParams([params EXCEPT !.quality = IF checked THEN "HD" ELSE "Standard"])

\* handleGenerate with `|| loading' dropped from its first line
handleGenerateUnguarded ==
    IF trim(prompt) = ""
    THEN UNCHANGED vars
    ELSE /\ loading' = TRUE
         /\ error' = JNull
         /\ currentResult' = JNull
         /\ pending' = Append(pending, [prompt |-> prompt, params |-> params])
         /\ UNCHANGED << prompt, params, history, activeHistoryId, showSampleData,
                         storage, effects, now, uncaught, raw,
                         normalized >>

\* handleGenerate up to its await: the call is issued with prompt and params
\* as the closure holds them
handleGenerate ==
    IF trim(prompt) = "" \/ loading
    THEN UNCHANGED vars
    ELSE /\ loading' = TRUE
         /\ error' = JNull
         /\ currentResult' = JNull
         /\ pending' = Append(pending, [prompt |-> prompt, params |-> params])
         /\ UNCHANGED << prompt, params, history, activeHistoryId, showSampleData,
                         storage, effects, now, uncaught, raw,
                         normalized >>

\* the Generate button, disabled={!prompt.trim() || loading}
ClickGenerate ==
    /\ Settled
    /\ ~(trim(prompt) = "" \/ loading)
    /\ handleGenerate

\* Ctrl/Cmd+Enter reaching handleKeyDown.  The textarea is disabled while
\* loading; a key event that reaches it all the same meets handleGenerate's guard
PressCtrlEnter ==
    /\ Settled
    /\ handleGenerate

\* Regenerate / Try Again / Generate Again of the result card, which is
\* rendered when !loading && currentResult
ClickRegenerate ==
    /\ Settled
    /\ ~loading /\ currentResult # JNull
    /\ IF trim(prompt) # "" THEN handleGenerate ELSE UNCHANGED vars

\* a fallback that takes enhanced_prompt and style too, empty or not
FillFromAll(imageData, from) ==
    IF Truthy(from.image_url)
    THEN [imageData EXCEPT
            !.image_url = from.image_url,
            !.enhanced_prompt = from.enhanced_prompt,
            !.style = from.style]
    ELSE imageData

\* a fallback of handleGenerate: image_url taken from `from', enhanced_prompt
\* and style only where still empty
FillFrom(imageData, from) ==
    IF Truthy(from.image_url)
    THEN [imageData EXCEPT
            !.image_url = from.image_url,
            !.enhanced_prompt = IF Falsy(@) THEN from.enhanced_prompt ELSE @,
            !.style = IF Falsy(@) THEN from.style ELSE @]
    ELSE imageData

\* the catch block showing the text of the else branch
FAILED_TEXT == "Failed to generate image. Please try again."

GENERIC_ERROR == "An unexpected error occurred. Please try again."
FAILED_ERROR == "Failed to generate image. Please try again."

\* Op applied to the value of x
With(x, Op(_)) == CHOOSE v \in { Op(y) : y \in {x} } : TRUE

\* `if (!imageData.image_url && text)': the fields text's parse fills in
Fallback(imageData, text) ==
    IF Falsy(imageData.image_url) /\ Truthy(text)
    THEN With(parseAgentTextResponse(text), LAMBDA from : FillFrom(imageData, from))
    ELSE imageData

\* the result left as extracted: `if (!imageData.original_prompt)' forgotten
FillPromptNever(imageData, p) == imageData

\* `if (!imageData.original_prompt)'
FillPrompt(imageData, p) ==
    IF Falsy(imageData.original_prompt)
    THEN [imageData EXCEPT !.original_prompt = JStr(trim(p))]
    ELSE imageData

\* success taken only for an envelope that carries a result
IsSuccessWithResult(result) ==
    /\ Truthy(Get(result, "success"))
    /\ OptGet(OptGet(result, "response"), "status") = JStr("success")
    /\ Truthy(OptGet(OptGet(result, "response"), "result"))

\* result.success && result?.response?.status === 'success'
IsSuccess(result) ==
    /\ Truthy(Get(result, "success"))
    /\ OptGet(OptGet(result, "response"), "status") = JStr("success")

(***************************************************************************)
(* What handleGenerate does once the call has settled with `result' (the   *)
(* envelope, or JThrow for a rejected call): "ok" with the image data to   *)
(* show and store, or "error" with the value given to setError.  p is the  *)
(* prompt the closure holds.                                               *)
(***************************************************************************)
Outcome(result, p) ==
    LET response == OptGet(result, "response")
        message == OptGet(response, "message")
    IN IF Get(result, "success") = JThrow
       THEN [k |-> "error", error |-> JStr(GENERIC_ERROR)]
       ELSE IF IsSuccess(result)
       THEN With(extractImageResult(OptGet(response, "result")),
                 LAMBDA extracted :
                    IF extracted = JThrow
                    THEN [k |-> "error", error |-> JStr(GENERIC_ERROR)]
                    ELSE [k |-> "ok",
                          imageData |->
                            With(Fallback(extracted, message),
                                 LAMBDA d1 :
                                    With(Fallback(d1, OptGet(result, "raw_response")),
                                         LAMBDA d2 : FillPrompt(d2, p)))])
       ELSE [k |-> "error",
             error |-> Coalesce(message, Coalesce(OptGet(result, "error"), JStr(FAILED_ERROR)))]

\* [...prev.slice(0, 49), newItem]: the new item put last
PutLast(newItem, prev) ==
    SubSeq(prev, 1, IF Len(prev) < 49 THEN Len(prev) ELSE 49) \o << newItem >>

\* [newItem, ...prev.slice(0, 49)]
Prepend(newItem, prev) ==
    << newItem >> \o SubSeq(prev, 1, IF Len(prev) < SLICE_END THEN Len(prev) ELSE SLICE_END)

\* setLoading(false) as the last statement of the try, not in a finally: a call
\* that throws leaves loading set
AgentSettleNoFinally(result, t) ==
    /\ Settled
    /\ pending # << >>
    /\ \E call \in {Head(pending)} : \E out \in {Outcome(result, call.prompt)} :
          IF out.k = "ok"
          THEN /\ currentResult' = out.imageData
               /\ history' = Prepend(Item("gen-" \o ToString(t), trim(call.prompt),
                                          call.params, out.imageData),
                                     history)
               /\ activeHistoryId' = JStr("gen-" \o ToString(t))
               /\ effects' = {"history"}
               /\ now' = t
               /\ UNCHANGED error
          ELSE /\ error' = out.error
               /\ UNCHANGED << currentResult, history, activeHistoryId, effects, now >>
    /\ loading' = (Get(result, "success") = JThrow)
    /\ pending' = Tail(pending)
    /\ UNCHANGED << prompt, params, showSampleData, storage, uncaught, raw,
                    normalized >>

\* handleGenerate from its await on; t is what Date.now() returns
AgentSettle(result, t) ==
    /\ Settled
    /\ pending # << >>
    /\ \E call \in {Head(pending)} : \E out \in {Outcome(result, call.prompt)} :
          IF out.k = "ok"
          THEN /\ currentResult' = out.imageData
               /\ history' = Prepend(Item("gen-" \o ToString(t), trim(call.prompt),
                                          call.params, out.imageData),
                                     history)
               /\ activeHistoryId' = JStr("gen-" \o ToString(t))
               /\ effects' = {"history"}
               /\ now' = t
               /\ UNCHANGED error
          ELSE /\ error' = out.error
               /\ UNCHANGED << currentResult, history, activeHistoryId, effects, now >>
    /\ loading' = FALSE
    /\ pending' = Tail(pending)
    /\ UNCHANGED << prompt, params, showSampleData, storage, uncaught, raw,
                    normalized >>

\* a click on entry i of the sidebar
handleHistorySelect(i) ==
    /\ Settled
    /\ i \in 1..Len(history)
    /\ LET item == history[i]
       IN /\ prompt' = item.prompt
          /\ params' = [style |-> item.style, size |-> item.size, quality |-> item.quality]
          /\ currentResult' = item.result
          /\ activeHistoryId' = JStr(item.id)
          /\ error' = JNull
    /\ UNCHANGED << loading, history, showSampleData, storage, effects, pending, now,
                    uncaught, raw, normalized >>

\* the X of the textarea, rendered when prompt is not empty, disabled while loading
handleClear ==
    /\ Settled
    /\ prompt # "" /\ ~loading
    /\ prompt' = ""
    /\ currentResult' = JNull
    /\ activeHistoryId' = JNull
    /\ error' = JNull
    /\ UNCHANGED << params, loading, history, showSampleData, storage, effects, pending,
                    now, uncaught, raw, normalized >>

\* handleClearHistory without its setHistory([])
handleClearHistoryKeepsList(throws) ==
    /\ Settled
    /\ Len(history) > 0
    /\ storage' = removeItem(storage, throws)
    /\ uncaught' = (uncaught \/ throws)
    /\ UNCHANGED << prompt, params, loading, error, currentResult, history,
                    activeHistoryId, showSampleData, effects, pending, now,
                    raw, normalized >>

\* the trash button of the sidebar, rendered when history.length > 0;
\* removeItem stands outside any try
handleClearHistory(throws) ==
    /\ Settled
    /\ Len(history) > 0
    /\ history' = << >>
    /\ effects' = {"history"}
    /\ storage' = removeItem(storage, throws)
    /\ uncaught' = (uncaught \/ throws)
    /\ UNCHANGED << prompt, params, loading, error, currentResult, activeHistoryId,
                    showSampleData, pending, now, raw, normalized >>

\* the Sample Data switch: onCheckedChange={setShowSampleData}
ToggleSampleData ==
    /\ Settled
    /\ showSampleData' = ~showSampleData
    /\ effects' = {"show"}
    /\ UNCHANGED << prompt, params, loading, error, currentResult, history,
                    activeHistoryId, storage, pending, now, uncaught,
                    raw, normalized >>

-----------------------------------------------------------------------------
(* Inputs *)

\* an item a previous session left in storage, i ticks before this one began
OldItem(i) ==
    Item("gen-" \o ToString(0 - i), "an old prompt", DefaultParams,
         [EmptyResult EXCEPT !.image_url = JStr("https://x.com/old.png"),
                             !.original_prompt = JStr("an old prompt")])

OldList(n) == [i \in 1..n |-> OldItem(i)]

\* the longest list found in storage at start: one entry more than the page keeps
MaxStored == 51

InitialStorage ==
    { NoItem, EmptyText, InvalidText, NonArrayText, ArrayText(<< >>),
      ArrayText(OldList(1)), ArrayText(OldList(MaxStored)) }

\* the state after the first render of Home, its effects not yet run, with one
\* of `stored' in storage
InitPage(stored) ==
    /\ prompt = ""
    /\ params = DefaultParams
    /\ loading = FALSE
    /\ error = JNull
    /\ currentResult = JNull
    /\ history = << >>
    /\ activeHistoryId = JNull
    /\ showSampleData = FALSE
    /\ storage \in stored
    /\ effects = {"mount"}
    /\ pending = << >>
    /\ now = 0
    /\ uncaught = FALSE

Obj1(k1, v1) == JObj(<< Prop(k1, v1) >>)
Obj2(k1, v1, k2, v2) == JObj(<< Prop(k1, v1), Prop(k2, v2) >>)
Obj3(k1, v1, k2, v2, k3, v3) == JObj(<< Prop(k1, v1), Prop(k2, v2), Prop(k3, v3) >>)

\* an envelope of callAIAgent that reports success with `result'
Success(result) ==
    Obj2("success", JBool(TRUE),
         "response", Obj2("status", JStr("success"), "result", result))

OkText ==
    Success(Obj1("text", JStr("image_url: https://x.com/a.png\nenhanced_prompt: a cat")))
FailMessage ==
    Obj3("success", JBool(FALSE),
         "response", Obj2("status", JStr("error"), "message", JStr("Agent failed")),
         "error", JStr("bad gateway"))

\* the reading of the clock from which on no further call is issued
MaxClock == 2

Prompts == {"  ", " a dog "}
Responses == {OkText, FailMessage, JThrow}

Init == InitPage(InitialStorage) /\ raw = JUndef /\ normalized = JUndef

\* the events of the page, their inputs drawn from the given sets
Events(Faults, Texts, Envelopes, Ticks, lastTick) ==
    \/ FlushEffects(Faults)
    \/ \E val \in Texts : ChangePrompt(val)
    \/ SwitchQuality
    \/ now < lastTick /\ ClickGenerate
    \/ now < lastTick /\ PressCtrlEnter
    \/ now < lastTick /\ ClickRegenerate
    \/ \E result \in Envelopes, d \in Ticks : AgentSettle(result, now + d)
    \/ \E i \in 1..Len(history) : handleHistorySelect(i)
    \/ handleClear
    \/ \E throws \in Faults : handleClearHistory(throws)
    \/ ToggleSampleData

\* the page with a storage that never throws and a clock that ticks between
\* two generations
Next == Events({FALSE}, Prompts, Responses, {1}, MaxClock)

Spec == Init /\ [][Next]_vars

-----------------------------------------------------------------------------
(* A long session: one prompt, generation after generation, the switch     *)
(* used during the first calls only                                        *)

\* the reading of the clock from which on no further call is issued
CapClock == 56
\* the reading of the clock from which on the switch is left alone
ToggleWindow == 2

NextCap ==
    \/ FlushEffects({FALSE})
    \/ ChangePrompt(" a dog ")
    \/ now < CapClock /\ ClickGenerate
    \/ AgentSettle(OkText, now + 1)
    \/ now < ToggleWindow /\ ToggleSampleData

SpecCap == Init /\ [][NextCap]_vars

-----------------------------------------------------------------------------
(* The normalizer alone, applied to a raw value *)

\* the numbers tried as raw value: -MaxNumber .. MaxNumber
MaxNumber == 3

\* an object given the key z before the key 1: its own keys run 1, z
IndexKeyed == Obj2("z", JStr("http://a.io/first.png"), "1", JStr("http://a.io/second.png"))

RawValues ==
    { JUndef, JNull, JBool(FALSE), JBool(TRUE), JStr(""),
      JStr("image_url: https://x.com/a.png\nStyle : Noir"),
      JStr("see https://x.com/b.JPG, it is done"),
      JObj(<< >>), JArr(<< >>),
      Obj1("image_url", JStr("https://x.com/c.gif")),
      Obj1("url", JStr("http://x.com/d.webp")),
      IndexKeyed }
    \cup { JNum(n) : n \in (0 - MaxNumber)..MaxNumber }

RawKeys ==
    { "text", "message", "data", "image_url", "enhanced_prompt", "summary", "style",
      "note" }

\* texts for raw.text and raw.message: empty, with and without an image_url,
\* the last one set with vertical tabs for spaces
RawTexts ==
    { JStr(""), JStr("hello"), JStr("style: flat"),
      JStr("image_url: https://x.com/a.png\nStyle : Noir"),
      JStr("ImageURL:https://x.com/n.png") }

\* what stands beside them: a second strategy's input
RawSeconds ==
    { Prop("message", JStr("image_url: https://x.com/m.png")),
      Prop("message", JStr("no url in here")),
      Prop("data", Obj2("image_url", JStr("https://x.com/d.png"), "style", JNum(7))),
      Prop("image_url", JStr("https://x.com/t.png")),
      Prop("enhanced_prompt", JStr("a cat")) }

RawPairs ==
    { JObj(<< Prop(kv[1], kv[2]), kv[3] >>) :
        kv \in { x \in {"text", "message"} \X (RawTexts \cup {JNum(1)}) \X RawSeconds :
                    x[3].k # x[1] } }

\* an object with a data property, top-level fields and a free-text note; a
\* property holding JUndef reads, and serializes, as a property that is not there
Shape(data, imageUrl, style, enhancedPrompt, summary, note) ==
    JObj(<< Prop("data", data), Prop("image_url", imageUrl), Prop("style", style),
            Prop("enhanced_prompt", enhancedPrompt), Prop("summary", summary),
            Prop("note", note) >>)

RawDatas ==
    { JUndef, JNull, JStr(""), JNum(0), JStr("text"),
      Obj1("style", JStr("flat")),
      Obj2("image_url", JStr("https://x.com/d.png"), "enhanced_prompt", JStr("from data")) }

RawNotes ==
    { JUndef,
      JStr("see https://x.com/pic.PNG for result"),
      JStr("http://a.io/x.jpeg, then https://b.io/y.gif"),
      JStr("HTTPS://X.COM/UP.WEBP"),
      JStr("https://x.com/doc.pdf and ftp://x.com/pic.png"),
      JStr("http://a.io/xy.png") }

RawShapes ==
    { Shape(d, u, st, e, sm, n) :
        d \in RawDatas,
        u \in { JUndef, JStr(""), JStr("https://x.com/t.png") },
        st \in { JUndef, JStr("noir") },
        e \in { JUndef, JStr("a cat") },
        sm \in { JUndef, JStr("sum") },
        n \in RawNotes }

RawInputs ==
    RawValues \cup { Obj1(k, v) : k \in RawKeys, v \in RawValues } \cup RawPairs
        \cup RawShapes

\* normalized is undefined until the normalizer has returned
Normalize ==
    /\ normalized = JUndef
    /\ normalized' = extractImageResult(raw)
    /\ UNCHANGED << raw, uiVars >>

InitNormalize == InitPage({NoItem}) /\ raw \in RawInputs /\ normalized = JUndef

SpecNormalize == InitNormalize /\ [][Normalize]_vars

-----------------------------------------------------------------------------
(* Generation against one agent: raw is the envelope its every call        *)
(* settles with (JThrow: the call rejects)                                 *)

\* results the agent reports inside a successful envelope
GenResults ==
    { JNull,
      Obj1("text", JStr("image_url: https://x.com/a.png\noriginal_prompt: as the agent read it")),
      Obj1("text", JStr("image_url: https://x.com/a.png\nenhanced_prompt: a cat")),
      Obj1("data", Obj1("original_prompt", JStr("from data"))),
      Obj1("data", Obj1("style", JStr("flat"))),
      JStr("see https://x.com/b.JPG, it is done") }

\* a successful envelope with a message beside the result, and a raw_response
SuccessWith(result, message, rawResponse) ==
    Obj3("success", JBool(TRUE),
         "response", Obj3("status", JStr("success"), "result", result, "message", message),
         "raw_response", rawResponse)

\* an envelope that reports failure; an undefined field is an absent one
Failure(success, status, message, err) ==
    Obj3("success", success,
         "response", Obj2("status", status, "message", message),
         "error", err)

GenFailures ==
    { Failure(JBool(FALSE), JStr("error"), m, e) :
        m \in {JUndef, JNull, JStr(""), JStr("Agent failed")},
        e \in {JUndef, JNull, JStr("bad gateway")} }
    \cup { Failure(JBool(TRUE), JStr("error"), JStr("Agent failed"), JUndef),
           Failure(JBool(FALSE), JStr("success"), JUndef, JStr("bad gateway")),
           Failure(JUndef, JUndef, JUndef, JUndef),
           Obj1("success", JBool(TRUE)),
           Obj2("success", JBool(TRUE), "response", JNull) }

\* a call that does not return an envelope: it rejects, or resolves to nothing
GenThrows == { JThrow, JUndef, JNull }

\* results of an unexpected shape: missing, null, a number, a boolean, an
\* array, objects with none of the known fields
MalformedResults ==
    { JUndef, JNull, JNum(7), JBool(TRUE), JArr(<< JNum(1) >>), JObj(<< >>),
      Obj1("foo", JStr("bar")), Obj1("result", Obj1("image", JStr("x.png"))) }

\* successful envelopes whose message and raw_response stand behind a result
\* with or without an image_url
GenFallbacks ==
    { SuccessWith(Obj1("data", Obj2("enhanced_prompt", JStr("kept"),
                                    "generation_metadata", JStr("meta"))),
                  JStr("image_url: https://x.com/m.png\nenhanced_prompt: from message\nstyle: flat\ngeneration_metadata: m"),
                  JStr("image_url: https://x.com/r.png")),
      SuccessWith(Obj1("data", Obj1("style", JStr("kept"))),
                  JStr("enhanced_prompt: from message"),
                  JStr("image_url: https://x.com/r.png\nenhanced_prompt: from raw\nstyle: raw style")),
      SuccessWith(Obj1("text", JStr("image_url: https://x.com/a.png")),
                  JStr("image_url: https://x.com/m.png\nstyle: flat"),
                  JStr("image_url: https://x.com/r.png\nenhanced_prompt: from raw")),
      SuccessWith(Obj1("text", JStr("style: kept")),
                  JNum(5),
                  Obj1("image_url", JStr("https://x.com/r.png"))) }

GenEnvelopes ==
    { Success(r) : r \in GenResults }
    \cup { SuccessWith(JNull, JStr("image_url: https://x.com/m.png\nstyle: flat"), JUndef),
           SuccessWith(Obj1("enhanced_prompt", JStr("kept")), JStr("no url"),
                       JStr("image_url: https://x.com/r.png\nenhanced_prompt: from raw")) }
    \cup { Success(r) : r \in MalformedResults }
    \cup GenFallbacks \cup GenFailures \cup GenThrows

\* the reading of the clock from which on no further call is issued
GenClock == 2

InitGenerate == InitPage({NoItem}) /\ raw \in GenEnvelopes /\ normalized = JUndef

NextGenerate ==
    \/ FlushEffects({FALSE})
    \/ \E val \in Prompts : ChangePrompt(val)
    \/ now < GenClock /\ ClickGenerate
    \/ AgentSettle(raw, now + 1)
    \/ handleClear
    \/ ToggleSampleData

SpecGenerate == InitGenerate /\ [][NextGenerate]_vars

\* the await of handleGenerate returning, as pending shows it: AgentSettle is
\* the one action that takes the head off pending
CallReturns == Settled /\ pending # << >> /\ pending' = Tail(pending)

\* React runs the effects of a commit; every call returns or throws in the end,
\* whatever the user does to the page meanwhile
SpecGenerateLive ==
    /\ SpecGenerate
    /\ WF_vars(FlushEffects({FALSE}))
    /\ SF_pending(CallReturns)

-----------------------------------------------------------------------------
(* The key-value parser on texts put together line by line: raw is the     *)
(* sequence of the lines, each with the field its key names ("" when it    *)
(* names none) and the value it carries                                    *)

\* spellings of a key, each with the field the key stands for ("" when it
\* stands for none) and the key as the parser compares it
KeySpellings ==
    { << "image_url", "image_url", "image_url" >>,
      << "Image URL", "image_url", "image_url" >>,
      << "ImageURL", "image_url", "image_url" >>,
      << "Image  URL", "image_url", "image_url" >>,
      << "enhanced_prompt", "enhanced_prompt", "enhanced_prompt" >>,
      << "Enhanced   Prompt", "enhanced_prompt", "enhanced_prompt" >>,
      << "original_prompt", "original_prompt", "original_prompt" >>,
      << "STYLE", "style", "style" >>,
      << "Generation\tMetadata", "generation_metadata", "generation_metadata" >>,
      << "color", "", "color" >>,
      << "image-url", "", "image-url" >>,
      << "image url s", "", "image_url_s" >>,
      << "ImageURL", "", "imageurl" >>,
      << "STYLÉ", "", "stylé" >>,
      << "Σtyle ΟΔΟΣ", "", "σtyle_οδος" >>,
      << "StyleꟜᲉ", "", "styleƛᲊ" >>,
      << "", "", "" >> }

\* values as they stand once trimmed; two of them hold colons of their own, one
\* holds capitals
LineValues == { "", "a cat", "http://a.com/i.png", "noir: dark", "Été Σ" }

\* white space before the key, after the key, before the value, after the value
Paddings ==
    { << "", "", " ", "" >>,
      << "", "", "", "" >>,
      << "  ", " ", "  ", " \r" >>,
      << "", " ", " ", "\r" >>,
      << "", " ", " ", "\r" >>,
      << "﻿", " ", "  ", " ﻿" >> }

KeyValueLine(spelling, value, pad) ==
    [ line |-> pad[1] \o spelling[1] \o pad[2] \o ":" \o pad[3] \o value \o pad[4],
      colon |-> TRUE,
      key |-> spelling[3],
      field |-> spelling[2],
      value |-> value ]

ColonFreeLines ==
    { [ line |-> l, colon |-> FALSE, key |-> "", field |-> "", value |-> "" ] :
        l \in { "", "no colon here", "  image_url  " } }

Lines ==
    { KeyValueLine(k, v, p) : k \in KeySpellings, v \in LineValues, p \in Paddings }
        \cup ColonFreeLines

PlainLines ==
    { KeyValueLine(k, v, << "", "", " ", "" >>) : k \in KeySpellings, v \in LineValues }
        \cup ColonFreeLines

ParserInputs ==
    { << >> } \cup { << l >> : l \in Lines }
              \cup { << l, m >> : l \in Lines, m \in PlainLines }

RECURSIVE JoinLines(_)
JoinLines(lines) ==
    IF lines = << >> THEN ""
    ELSE IF Len(lines) = 1 THEN lines[1].line
    ELSE lines[1].line \o "\n" \o JoinLines(Tail(lines))

\* one call of the parser, on a text drawn from the inputs
ParseText ==
    /\ normalized = JUndef
    /\ \E lines \in ParserInputs :
        /\ raw' = lines
        /\ normalized' = parseAgentTextResponse(JStr(JoinLines(lines)))
    /\ UNCHANGED uiVars

InitParse == InitPage({NoItem}) /\ raw = << >> /\ normalized = JUndef

SpecParse == InitParse /\ [][ParseText]_vars

-----------------------------------------------------------------------------
(* The response normalizer of the enhancement variant *)

DataFields ==
    {"enhanced_prompt", "style_suggestion", "size_recommendation", "quality_notes",
     "original_prompt"}

\* result?.f ?? nested?.f ?? '' written where the code reads nested first
DataFieldTopFirst(nested, result, f) ==
    Coalesce(OptGet(result, f), Coalesce(OptGet(nested, f), JStr("")))

\* nested?.f ?? result?.f ?? ''
DataField(nested, result, f) ==
    Coalesce(OptGet(nested, f), Coalesce(OptGet(result, f), JStr("")))

extractImageData(result) ==
    LET summary == Coalesce(OptGet(result, "summary"), JStr(""))
        nested == OptGet(result, "data")
    IN [ data |-> [f \in DataFields |-> DataField(nested, result, f)],
         summary |-> summary ]

\* a property holding JUndef reads as a property that is not there
Summaries == { JUndef, JNull, JStr(""), JStr("done") }
NestedValues == { JUndef, JNull, JStr(""), JStr("nested"), JNum(0) }
TopValues == { JUndef, JNull, JStr(""), JStr("top"), JBool(FALSE) }

DataValues ==
    { JUndef, JNull, JStr("text") }
        \cup { Obj1(f, v) : f \in DataFields, v \in NestedValues }

EnhancementInputs ==
    { JUndef, JNull, JStr("text"), JNum(0) }
        \cup { Obj3("summary", summary, "data", d, f, v) :
                 summary \in Summaries, d \in DataValues, f \in DataFields, v \in TopValues }

ExtractData ==
    /\ normalized = JUndef
    /\ normalized' = extractImageData(raw)
    /\ UNCHANGED << raw, uiVars >>

InitExtractData == InitPage({NoItem}) /\ raw \in EnhancementInputs /\ normalized = JUndef

SpecExtractData == InitExtractData /\ [][ExtractData]_vars

-----------------------------------------------------------------------------
(* Generations under a clock that may read the same from one generation to *)
(* the next: Date.now() counts milliseconds and follows the system clock;  *)
(* the parameter panel is used between them, so that the entries of the    *)
(* history differ in their parameters                                      *)

\* the length of the history from which on no further call is issued
MaxEntries == 3
\* the reading of the clock from which on no further call is issued
ClockEnd == 2
\* the items picked in the Style select and in the Size select
StyleChoices == { "Anime" }
SizeChoices == { "Portrait (1024x1792)" }

NextClock ==
    \/ FlushEffects({FALSE})
    \/ ChangePrompt(" a dog ")
    \/ Len(history) < MaxEntries /\ now < ClockEnd /\ ClickGenerate
    \/ \E d \in {0, 1} : AgentSettle(OkText, now + d)
    \/ \E i \in 1..Len(history) : handleHistorySelect(i)
    \/ handleClearHistory(FALSE)
    \/ \E value \in StyleChoices : SelectStyle(value)
    \/ \E value \in SizeChoices : SelectSize(value)
    \/ SwitchQuality

SpecClock == Init /\ [][NextClock]_vars

-----------------------------------------------------------------------------
(* The page over a storage whose every access may throw (storage blocked   *)
(* by the browser, quota exceeded); the agent always succeeds              *)

\* the reading of the clock from which on no further call is issued
FaultyClock == 1

NextFaulty ==
    \/ FlushEffects(BOOLEAN)
    \/ ChangePrompt(" a dog ")
    \/ now < FaultyClock /\ ClickGenerate
    \/ AgentSettle(OkText, now + 1)
    \/ \E throws \in BOOLEAN : handleClearHistory(throws)
    \/ ToggleSampleData

SpecFaulty == Init /\ [][NextFaulty]_vars

-----------------------------------------------------------------------------
(* Properties *)

\* the persisted copy is empty: the key removed, or holding an empty array
PersistedEmpty(item) == item = NoItem \/ item = ArrayText(<< >>)

\* the flush that follows the switch going off is about to run
ToggleOffPending == effects = {"show"} /\ ~showSampleData

\* the flush of the mount effects is about to run
MountPending == effects = {"mount"}

(***************************************************************************)
(* C1: with a list L persisted, demo mode switched on and then off again   *)
(* with no other change to the history leaves the in-memory history equal  *)
(* to L and the persisted copy equal to L, not the sample list.            *)
(***************************************************************************)
C1_ToggleOnOffRestores ==
    [][ ( /\ ToggleOffPending
          /\ history = SAMPLE_HISTORY
          /\ storage.k = "array" )
        => (history' = storage.list /\ storage' = storage) ]_vars

(***************************************************************************)
(* C2: when the page starts with a JSON array L under the key, the mount   *)
(* effects leave the in-memory history equal to L and L persisted.         *)
(***************************************************************************)
C2_StartupKeepsStored ==
    [][ (MountPending /\ storage.k = "array")
        => (history' = storage.list /\ storage' = storage) ]_vars

(***************************************************************************)
(* C3: in every reachable state, whatever storage held at start and        *)
(* whichever of its accesses throw, the in-memory history has at most 50   *)
(* entries, right after loading from storage included.                     *)
(***************************************************************************)
C3_HistoryAtMost50 == Len(history) <= 50

(***************************************************************************)
(* C4: a successful generation replaces the history H by the new entry     *)
(* followed by the first 49 entries of H in their order, the new entry     *)
(* nowhere but in front; so the entries generated since the list was last  *)
(* replaced are the most recent ones, newest first, 50 of them at most.    *)
(***************************************************************************)
C4_Step ==
    now' # now =>
        /\ history' = << history'[1] >>
                      \o SubSeq(history, 1, IF Len(history) < 49 THEN Len(history) ELSE 49)
        /\ history'[1].id = "gen-" \o ToString(now')
        /\ \A i \in 1..Len(history) : history[i].id # history'[1].id

C4_MostRecent ==
    /\ \A i \in 1..Len(history) :
          \/ history[i].id = "gen-" \o ToString(now - i + 1)
          \/ \E j \in 1..Len(SAMPLE_HISTORY) : history[i] = SAMPLE_HISTORY[j]
    /\ (\A i \in 1..Len(history) : \A j \in 1..Len(SAMPLE_HISTORY) :
            history[i] # SAMPLE_HISTORY[j])
       => Len(history) = IF now < 50 THEN now ELSE 50

C4_PrependKeepsFirst49 == [] C4_MostRecent /\ [][C4_Step]_vars

C4_After55Generations ==
    /\ now = 55 /\ pending = << >> /\ Settled
    /\ Len(history) = 50
    /\ \A i \in 1..50 : history[i].id = "gen-" \o ToString(56 - i)

(***************************************************************************)
(* C5: at most one agent call is in flight at any time, whatever the user  *)
(* does while a call is pending.                                           *)
(***************************************************************************)
C5_OneCallInFlight == Len(pending) <= 1

C5_CallPending == Len(pending) = 1 /\ loading /\ Settled /\ trim(prompt) # ""

(***************************************************************************)
(* C6: switching demo mode on makes the in-memory history the sample list  *)
(* and leaves the persisted copy as it was; no effect writes to storage    *)
(* while demo mode is on.                                                  *)
(***************************************************************************)
C6_DemoOnKeepsCopy ==
    [][ /\ (~showSampleData /\ showSampleData')
            => (storage' = storage /\ history' = history)
        /\ (showSampleData /\ effects # {})
            => /\ storage' = storage
               /\ ("show" \in effects => history' = SAMPLE_HISTORY) ]_vars

C6_SampleShownCopyKept ==
    /\ showSampleData /\ Settled
    /\ history = SAMPLE_HISTORY
    /\ storage.k = "array" /\ Len(storage.list) = 1

(***************************************************************************)
(* C7: while demo mode is on, no step changes or removes a persisted copy  *)
(* that holds entries.                                                     *)
(***************************************************************************)
C7_DemoNeverTouchesCopy ==
    [][ (showSampleData /\ showSampleData' /\ storage.k = "array" /\ storage.list # << >>)
        => storage' = storage ]_vars

(***************************************************************************)
(* C8: with demo mode off, clearing the history empties the in-memory list *)
(* and, once the effects have run, the persisted copy is empty (the key    *)
(* removed or holding an empty array); a page started on an empty          *)
(* persisted copy has an empty history.                                    *)
(***************************************************************************)
C8_ClearEmptiesBoth ==
    [][ /\ (~showSampleData /\ Settled /\ storage # NoItem /\ storage' = NoItem)
            => (history' = << >> /\ effects' = {"history"})
        /\ (~showSampleData /\ effects = {"history"} /\ history = << >>)
            => (history' = << >> /\ PersistedEmpty(storage') /\ effects' = {})
        /\ (MountPending /\ PersistedEmpty(storage))
            => history' = << >> ]_vars

C8_ClearedAfterGeneration ==
    /\ ~showSampleData /\ Settled
    /\ history = << >> /\ storage = ArrayText(<< >>)
    /\ activeHistoryId # JNull

(***************************************************************************)
(* C9: when the key is missing or holds text that is no JSON or JSON that  *)
(* is no array, the mount effects and the effects of switching demo mode   *)
(* off end with an empty in-memory history, the error unchanged and no     *)
(* exception escaped.                                                      *)
(***************************************************************************)
C9_BadStorageGivesEmpty ==
    [][ ( /\ MountPending \/ ToggleOffPending
          /\ storage.k \in {"none", "empty", "invalid", "value"} )
        => (history' = << >> /\ error' = error /\ ~uncaught') ]_vars

(***************************************************************************)
(* C10: for a raw value that is null, undefined, a number or an empty      *)
(* object, extractImageResult returns the record of five empty strings; it *)
(* does not throw.                                                         *)
(***************************************************************************)
C10_NothingGivesEmptyResult ==
    ( /\ normalized # JUndef
      /\ raw \in {JNull, JUndef, JObj(<< >>)} \/ raw.t = "number" )
    => normalized = EmptyResult

C10_NullNormalized == raw = JNull /\ normalized = EmptyResult

\* the normalizer has returned
Returned == normalized # JUndef

(***************************************************************************)
(* C11 as stated: whenever raw.text is a string, the empty one included,   *)
(* extractImageResult returns the key-value parse of raw.text, whatever    *)
(* else raw holds.                                                         *)
(***************************************************************************)
C11_AnyTextIsParsed ==
    (Returned /\ IsString(OptGet(raw, "text")))
    => normalized = parseAgentTextResponse(OptGet(raw, "text"))

(***************************************************************************)
(* C11: whenever raw.text is a non-empty string, extractImageResult        *)
(* returns the key-value parse of raw.text, with or without an image_url   *)
(* in it and whatever raw.message, raw.data and the top-level fields hold. *)
(***************************************************************************)
C11_NonEmptyTextIsParsed ==
    (Returned /\ IsString(OptGet(raw, "text")) /\ OptGet(raw, "text") # JStr(""))
    => normalized = parseAgentTextResponse(OptGet(raw, "text"))

C11_TextWithoutUrlBesideData ==
    /\ raw = JObj(<< Prop("text", JStr("hello")),
                     Prop("data", Obj2("image_url", JStr("https://x.com/d.png"),
                                       "style", JNum(7))) >>)
    /\ normalized = EmptyResult

(***************************************************************************)
(* C12: with no raw.text and a string raw.message, a parse of the message  *)
(* that has an image_url is the result even when raw.data is populated; a  *)
(* parse without one is dropped and the later strategies decide: the       *)
(* fields of raw.data when that is there, else the top-level image_url.    *)
(***************************************************************************)
C12_MessageWinsWithUrl ==
    (Returned /\ OptGet(raw, "text") = JUndef /\ IsString(OptGet(raw, "message")))
    => IF parseAgentTextResponse(OptGet(raw, "message")).image_url # JStr("")
       THEN normalized = parseAgentTextResponse(OptGet(raw, "message"))
       ELSE /\ Truthy(OptGet(raw, "data"))
                => \A f \in ResultFields :
                      normalized[f] = IF Truthy(OwnProp(OptGet(raw, "data"), f))
                                      THEN OwnProp(OptGet(raw, "data"), f)
                                      ELSE JStr("")
            /\ (Falsy(OptGet(raw, "data")) /\ Truthy(OptGet(raw, "image_url")))
                => normalized.image_url = OptGet(raw, "image_url")

C12_MessageBeatsData ==
    /\ raw = JObj(<< Prop("message", JStr("image_url: https://x.com/a.png\nStyle : Noir")),
                     Prop("data", Obj2("image_url", JStr("https://x.com/d.png"),
                                       "style", JNum(7))) >>)
    /\ normalized = [EmptyResult EXCEPT !.image_url = JStr("https://x.com/a.png"),
                                        !.style = JStr("Noir")]

(***************************************************************************)
(* C13: for any raw value every field of the normalized result is a        *)
(* string, possibly empty.                                                 *)
(***************************************************************************)
C13_FieldsAreStrings ==
    Returned => \A f \in ResultFields : normalized[f].t = "string"

\* the result field of the envelope raw: result?.response?.result
ResultOfRaw == OptGet(OptGet(raw, "response"), "result")

\* this step is a call settling
Settles == pending # << >> /\ pending' = Tail(pending)

(***************************************************************************)
(* C14: the result of a successful generation, as shown and as stored in   *)
(* the new entry, has a non-empty original_prompt: the extracted one when  *)
(* that is not empty, else the trimmed prompt the call was issued with.    *)
(***************************************************************************)
C14_OriginalPromptFilled ==
    [][ now' # now =>
          LET r == history'[1].result
              extracted == extractImageResult(ResultOfRaw).original_prompt
          IN /\ currentResult' = r
             /\ r.original_prompt # JStr("")
             /\ r.original_prompt = IF extracted # JStr("")
                                    THEN extracted
                                    ELSE JStr(trim(Head(pending).prompt)) ]_vars

C14_FilledFromPrompt ==
    /\ raw = Success(Obj1("text", JStr("image_url: https://x.com/a.png\nenhanced_prompt: a cat")))
    /\ Len(history) = 1
    /\ history[1].result.original_prompt = JStr("a dog")
    /\ currentResult = history[1].result

(***************************************************************************)
(* C17: when the agent call rejects, or throws for want of an envelope,    *)
(* the error becomes 'An unexpected error occurred. Please try again.',    *)
(* no entry is added, the persisted copy is untouched, and the page is     *)
(* ready for a new generation: not loading, no call left in flight.        *)
(***************************************************************************)
C17_RejectionShowsGenericError ==
    [][ (Settles /\ raw \in GenThrows) =>
          /\ error' = JStr("An unexpected error occurred. Please try again.")
          /\ history' = history
          /\ storage' = storage
          /\ effects' = effects
          /\ ~loading' /\ pending' = << >> /\ ~uncaught' ]_vars

C17_RejectedAndReady ==
    /\ raw = JThrow
    /\ error = JStr("An unexpected error occurred. Please try again.")
    /\ history = << >> /\ storage = ArrayText(<< >>)
    /\ ~loading /\ Settled /\ trim(prompt) # ""

(***************************************************************************)
(* C18: when the call returns an envelope whose success is false or whose  *)
(* response.status is not 'success', the error is the response's message   *)
(* if there is one (not null, not undefined), else the envelope's error if *)
(* there is one, else 'Failed to generate image. Please try again.'; no    *)
(* entry is created and the history and its persisted copy stay as they    *)
(* were.                                                                   *)
(***************************************************************************)
C18_FailureShowsItsMessage ==
    [][ ( /\ Settles
          /\ raw \notin GenThrows
          /\ ~(Truthy(OptGet(raw, "success"))
               /\ OptGet(OptGet(raw, "response"), "status") = JStr("success")) )
        => LET message == OptGet(OptGet(raw, "response"), "message")
               err == OptGet(raw, "error")
           IN /\ error' = IF ~IsNullish(message) THEN message
                          ELSE IF ~IsNullish(err) THEN err
                          ELSE JStr("Failed to generate image. Please try again.")
              /\ history' = history
              /\ storage' = storage
              /\ effects' = effects ]_vars

C18_EnvelopeErrorShown ==
    /\ raw = Failure(JBool(FALSE), JStr("error"), JUndef, JStr("bad gateway"))
    /\ error = JStr("bad gateway")
    /\ history = << >> /\ ~loading /\ Settled

(***************************************************************************)
(* C15: the key of a line is the text before the line's first colon,       *)
(* trimmed, lower-cased (letters outside ASCII and the final sigma         *)
(* included), its white-space runs turned into one underscore; the         *)
(* key-value parser gives each of the five fields the trimmed value of the *)
(* last line whose key is that field's name, later colons staying in the   *)
(* value and the value's letters staying as they are; lines without a      *)
(* colon or with another key change nothing, and a field no line names     *)
(* stays the empty string.                                                 *)
(***************************************************************************)
C15_ParserKeepsLastAssignment ==
    Returned =>
        /\ \A i \in 1..Len(raw) : raw[i].colon => KeyOf(raw[i].line) = raw[i].key
        /\ \A f \in ResultFields :
               LET named == { i \in 1..Len(raw) : raw[i].field = f }
               IN normalized[f] = IF named = {} THEN JStr("")
                                  ELSE JStr(raw[Max(named)].value)

C15_TwoLinesParsed ==
    /\ Len(raw) = 2
    /\ raw[1].line = "image_url: http://a.com/i.png"
    /\ raw[2].line = "enhanced_prompt: a cat"
    /\ normalized = [EmptyResult EXCEPT !.image_url = JStr("http://a.com/i.png"),
                                        !.enhanced_prompt = JStr("a cat")]

(***************************************************************************)
(* C16: extractImageData returns, for any raw value, the summary raw holds *)
(* (the empty string when raw holds none) and, for each data field, the    *)
(* value raw.data holds when it holds one, else the value raw itself holds *)
(* when it holds one, else the empty string; holding a value means a value *)
(* other than null and undefined. A null or undefined raw gives all-empty  *)
(* data and an empty summary, and nothing is thrown.                       *)
(***************************************************************************)
C16_NestedThenTopThenEmpty ==
    Returned =>
        LET nothing == raw.t \in {"undefined", "null"}
            Held(v, k) == IF v.t = "object" THEN OwnProp(v, k) ELSE JUndef
            Holds(v, k) == Held(v, k).t \notin {"undefined", "null"}
            data == Held(raw, "data")
        IN /\ normalized # JThrow
           /\ normalized.summary =
                  IF Holds(raw, "summary") THEN Held(raw, "summary") ELSE JStr("")
           /\ \A f \in DataFields :
                  normalized.data[f] =
                      IF Holds(data, f) THEN Held(data, f)
                      ELSE IF Holds(raw, f) THEN Held(raw, f)
                      ELSE JStr("")
           /\ nothing => /\ normalized.summary = JStr("")
                         /\ \A f \in DataFields : normalized.data[f] = JStr("")

C16_EmptyNestedBeatsTop ==
    /\ raw = Obj3("summary", JStr("done"),
                  "data", Obj1("quality_notes", JStr("")),
                  "quality_notes", JStr("top"))
    /\ Returned
    /\ normalized.summary = JStr("done")
    /\ normalized.data["quality_notes"] = JStr("")

(***************************************************************************)
(* C19: in every reachable state no two entries of the history list have   *)
(* the same id.                                                            *)
(***************************************************************************)
C19_IdsDistinct ==
    \A i, j \in 1..Len(history) : i # j => history[i].id # history[j].id

(***************************************************************************)
(* C20: whichever storage access throws (getItem, setItem, removeItem; at  *)
(* startup, on persisting, on reloading after the demo is turned off, on   *)
(* clearing the history), no exception leaves the operation and the error  *)
(* state is not set.                                                       *)
(***************************************************************************)
C20_StorageFailuresCaught ==
    ~uncaught /\ error = JNull

\* raw.data and a top-level field of raw, undefined where raw has none
DataOfRaw == OptGet(raw, "data")
TopLevel(f) == OptGet(raw, f)

\* neither the text strategy nor the message strategy has returned
PastTextAndMessage == Returned /\ ~TextCase(raw) /\ ~MessageCase(raw)

(***************************************************************************)
(* C21 as stated: past the text and message strategies, a raw.data that is *)
(* there gives all five fields (each '' by default) whatever raw's top     *)
(* level holds, and a top-level field of raw reaches the result only when  *)
(* raw.data is not there and raw.image_url is.                             *)
(***************************************************************************)
C21_TopLevelOnlyWithImageUrl ==
    PastTextAndMessage =>
        /\ Truthy(DataOfRaw) =>
              \A f \in ResultFields :
                  normalized[f] = IF Truthy(OwnProp(DataOfRaw, f))
                                  THEN OwnProp(DataOfRaw, f) ELSE JStr("")
        /\ \A f \in ResultFields :
              (Truthy(TopLevel(f)) /\ normalized[f] = TopLevel(f))
                  => (Falsy(DataOfRaw) /\ Truthy(TopLevel("image_url")))

(***************************************************************************)
(* C21: past the text and message strategies, a truthy raw.data gives all  *)
(* five fields (each '' by default) whatever raw's top level holds; with a *)
(* falsy raw.data and a truthy raw.image_url the five fields are raw's     *)
(* own; with neither, a top-level field reaches the result only through    *)
(* the last fallback (the URL search), which reads enhanced_prompt,        *)
(* original_prompt and style off raw.                                      *)
(***************************************************************************)
C21_DataBeforeTopLevel ==
    PastTextAndMessage =>
        /\ Truthy(DataOfRaw) =>
              \A f \in ResultFields :
                  normalized[f] = IF Truthy(OwnProp(DataOfRaw, f))
                                  THEN OwnProp(DataOfRaw, f) ELSE JStr("")
        /\ (Falsy(DataOfRaw) /\ Truthy(TopLevel("image_url"))) =>
              \A f \in ResultFields :
                  normalized[f] = IF Truthy(TopLevel(f)) THEN TopLevel(f) ELSE JStr("")
        /\ \A f \in ResultFields :
              (Truthy(TopLevel(f)) /\ normalized[f] = TopLevel(f))
                  => /\ Falsy(DataOfRaw)
                     /\ \/ Truthy(TopLevel("image_url"))
                        \/ /\ f \in {"enhanced_prompt", "original_prompt", "style"}
                           /\ normalized.image_url # JStr("")

C21_DataHidesTopLevelUrl ==
    /\ raw = Shape(Obj1("style", JStr("flat")), JStr("https://x.com/t.png"), JStr("noir"),
                   JUndef, JUndef, JUndef)
    /\ normalized = [EmptyResult EXCEPT !.style = JStr("flat")]

\* no strategy before the last fallback applies to raw
FallbackReached ==
    /\ PastTextAndMessage
    /\ Falsy(DataOfRaw) /\ Falsy(TopLevel("image_url"))
    /\ ~IsString(raw)

\* the notes of RawNotes with the first image URL the serialization of each
\* holds ("" for none)
NoteUrls ==
    { << "see https://x.com/pic.PNG for result", "https://x.com/pic.PNG" >>,
      << "http://a.io/x.jpeg, then https://b.io/y.gif", "http://a.io/x.jpeg" >>,
      << "HTTPS://X.COM/UP.WEBP", "HTTPS://X.COM/UP.WEBP" >>,
      << "https://x.com/doc.pdf and ftp://x.com/pic.png", "" >>,
      << "http://a.io/xy.png", "http://a.io/x\\u000by.png" >> }

(***************************************************************************)
(* C23: when no earlier strategy applies, image_url is the first http(s)   *)
(* URL ending in png, jpg, jpeg, gif or webp (in either case) found in the *)
(* serialization of raw, and enhanced_prompt is raw.enhanced_prompt or     *)
(* else raw.summary or else ''; when there is no such URL all five fields  *)
(* are empty.                                                              *)
(***************************************************************************)
C23_FallbackFindsFirstUrl ==
    FallbackReached =>
        /\ \A n \in NoteUrls :
              (raw \in RawShapes /\ TopLevel("note") = JStr(n[1]))
                  => normalized.image_url = JStr(n[2])
        /\ (raw \in RawShapes /\ TopLevel("note") = JUndef)
              => normalized.image_url = JStr("")
        /\ raw = IndexKeyed => normalized.image_url = JStr("http://a.io/second.png")
        /\ IF normalized.image_url = JStr("") THEN normalized = EmptyResult
           ELSE /\ normalized.enhanced_prompt =
                      IF Truthy(TopLevel("enhanced_prompt")) THEN TopLevel("enhanced_prompt")
                      ELSE IF Truthy(TopLevel("summary")) THEN TopLevel("summary")
                      ELSE JStr("")
                /\ normalized.generation_metadata = JStr("")

C23_UrlInNote ==
    /\ raw = Shape(JUndef, JUndef, JUndef, JUndef, JStr("sum"),
                   JStr("see https://x.com/pic.PNG for result"))
    /\ normalized = [EmptyResult EXCEPT !.image_url = JStr("https://x.com/pic.PNG"),
                                        !.enhanced_prompt = JStr("sum")]

\* the key-value parse of a fallback text of the envelope raw; a text that is
\* missing or no string parses to the empty record
MessageOfRaw == parseAgentTextResponse(OptGet(OptGet(raw, "response"), "message"))
RawResponseOfRaw == parseAgentTextResponse(OptGet(raw, "raw_response"))

(***************************************************************************)
(* C22: in a successful generation the message and then the raw_response   *)
(* are consulted only while image_url is empty; the first of them whose    *)
(* parse has an image_url gives image_url, and gives enhanced_prompt and   *)
(* style where those were empty; a non-empty field of the extracted result *)
(* is never overwritten; a parse without an image_url changes nothing.     *)
(***************************************************************************)
C22_FallbacksOnlyFill ==
    [][ now' # now =>
          LET extracted == extractImageResult(ResultOfRaw)
              r == history'[1].result
              used == IF extracted.image_url # JStr("") THEN extracted
                      ELSE IF MessageOfRaw.image_url # JStr("") THEN MessageOfRaw
                      ELSE IF RawResponseOfRaw.image_url # JStr("") THEN RawResponseOfRaw
                      ELSE extracted
          IN /\ \A f \in ResultFields : extracted[f] # JStr("") => r[f] = extracted[f]
             /\ r.image_url = used.image_url
             /\ \A f \in {"enhanced_prompt", "style"} :
                   extracted[f] = JStr("") => r[f] = used[f]
             /\ r.generation_metadata = extracted.generation_metadata ]_vars

C22_RawResponseFillsEmptyOnly ==
    /\ raw = SuccessWith(Obj1("data", Obj1("style", JStr("kept"))),
                         JStr("enhanced_prompt: from message"),
                         JStr("image_url: https://x.com/r.png\nenhanced_prompt: from raw\nstyle: raw style"))
    /\ Len(history) = 1
    /\ history[1].result =
          [image_url |-> JStr("https://x.com/r.png"), enhanced_prompt |-> JStr("from raw"),
           original_prompt |-> JStr("a dog"), style |-> JStr("kept"),
           generation_metadata |-> JStr("")]

(***************************************************************************)
(* C24: an envelope that reports success with a result of an unexpected    *)
(* shape (missing, null, a number, an object with none of the known        *)
(* fields) ends the generation as a success: the error stays null, the     *)
(* shown result is a record whose fields are empty but for the             *)
(* original_prompt the page fills in, and one entry holding it is added.   *)
(***************************************************************************)
C24_MalformedResultIsSuccess ==
    [][ (Settles /\ raw \in { Success(r) : r \in MalformedResults }) =>
          /\ error' = JNull
          /\ ~uncaught'
          /\ currentResult' =
                [EmptyResult EXCEPT !.original_prompt = JStr(trim(Head(pending).prompt))]
          /\ Len(history') = Len(history) + 1
          /\ history'[1].result = currentResult'
          /\ \A i \in 1..Len(history) : history'[i + 1] = history[i] ]_vars

C24_NumberResultStored ==
    /\ raw = Success(JNum(7))
    /\ error = JNull /\ ~loading
    /\ Len(history) = 1
    /\ currentResult = [EmptyResult EXCEPT !.original_prompt = JStr("a dog")]
    /\ history[1].result = currentResult

(***************************************************************************)
(* C25: whenever demo mode is off and the pending effects have run, the    *)
(* persisted copy is the serialization of the in-memory history; so an     *)
(* entry a successful generation added outside demo mode is in the         *)
(* persisted copy.                                                         *)
(***************************************************************************)
C25_PersistedIsHistory ==
    (~showSampleData /\ Settled) => storage = ArrayText(history)

C25_GeneratedEntryPersisted ==
    /\ ~showSampleData /\ Settled
    /\ Len(history) = 1 /\ history[1].id = "gen-1"
    /\ storage = ArrayText(history)

\* the ids of the built-in sample dataset
SampleIds == { SAMPLE_HISTORY[i].id : i \in 1..Len(SAMPLE_HISTORY) }

(***************************************************************************)
(* C27: once the pending effects have run, the persisted copy holds no     *)
(* entry of the sample dataset, after any sequence of demo toggles,        *)
(* generations, selections and clears.                                     *)
(***************************************************************************)
C27_NoSampleInPersistedCopy ==
    Settled => \A i \in 1..Len(storage.list) : storage.list[i].id \notin SampleIds

(***************************************************************************)
(* C28: after a generation that ended in failure (the call threw, or the   *)
(* envelope reported failure, whatever its message and error hold) the     *)
(* error is a non-empty string, so that the banner `error && ...' shows    *)
(* and the empty state `!loading && !currentResult && !error' does not.    *)
(***************************************************************************)
C28_FailureIsReported ==
    [][ (Settles /\ now' = now) =>
          /\ error'.t = "string" /\ error'.s # ""
          /\ ~(~loading' /\ Falsy(currentResult') /\ Falsy(error')) ]_vars

(***************************************************************************)
(* C26: loading is true exactly while a call is in flight, and, every call *)
(* returning or throwing in the end, a loading page stops loading: the     *)
(* flag is cleared on success, on a reported failure and on a throw, and   *)
(* the trigger is no longer held back by it.                               *)
(***************************************************************************)
C26_LoadingWhileInFlight ==
    /\ [](loading <=> pending # << >>)
    /\ loading ~> (~loading /\ pending = << >>)

C26_ThrownCallCleared ==
    /\ raw = JThrow
    /\ ~loading /\ pending = << >>
    /\ error = JStr(GENERIC_ERROR)
    /\ Settled /\ trim(prompt) # ""

(***************************************************************************)
(* C29: once the effects have run, activeHistoryId is null or the id of an *)
(* entry of the history list, after any sequence of generate, select,      *)
(* clear prompt, clear history and demo toggle.                            *)
(***************************************************************************)
C29_ActiveIdInHistory ==
    Settled =>
        \/ activeHistoryId = JNull
        \/ \E i \in 1..Len(history) : JStr(history[i].id) = activeHistoryId

(***************************************************************************)
(* C30: whenever no generation is in flight and activeHistoryId is the id  *)
(* of an entry of the history list, the result shown is that entry's       *)
(* result, also after a generation that failed.                            *)
(***************************************************************************)
C30_ShownResultIsActiveEntry ==
    (Settled /\ ~loading) =>
        \A i \in 1..Len(history) :
            JStr(history[i].id) = activeHistoryId => currentResult = history[i].result

=============================================================================
